---- MODULE Spec2Model ----
(***************************************************************************)
(* A model of raglint's evaluation orchestrator (raglint/core.py), of its   *)
(* plugin loader (raglint/plugins/loader.py) and of its plugin sandbox     *)
(* (raglint/plugins/sandbox.py).                                           *)
(*                                                                         *)
(* Scores are integers in tenths: 0 is 0.0, 10 is 1.0.  Python's None is   *)
(* the integer -1.                                                         *)
(***************************************************************************)
EXTENDS Integers, Sequences, FiniteSets, TLC

VARIABLES
    \* ---- RAGPipelineAnalyzer (core.py) ----
    data,               \* the input batch: a sequence of items
    use_smart_metrics,  \* self.use_smart_metrics
    show_progress,      \* analyze_async(show_progress=...)
    path,               \* "sync" (_analyze_sync) or "async" (analyze_async)
    failing,            \* the scorers / plugins whose call raises on a poisoned item
    tasks,              \* one coroutine _process_item_async(item) per item
    arrived,            \* item indexes in the order their tasks completed
    batch,              \* "sync" | "gather" | "returned" | "raised"
    result,             \* the AnalysisResult under construction / returned
    failedCalls,        \* history: per item, the metrics whose call raised
    \* ---- PluginLoader (plugins/loader.py) ----
    loaded,             \* PluginLoader._loaded
    metric_plugins,     \* PluginLoader.metric_plugins, in dict (insertion) order
    \* ---- PluginLoader._validate_plugin_safety ----
    src,                \* the plugin file handed to the validator
    verdict,            \* what the validator returned and logged
    vstate,             \* "idle" | "done"
    \* ---- PluginLoader._load_from_directory ----
    plugin_dir,         \* the directory: file stem -> content of the file
    todo,               \* the files path.glob("*.py") has still to yield
    plugins,            \* PluginLoader.plugins, in dict (insertion) order
    llm_plugins,        \* PluginLoader.llm_plugins
    sys_modules,        \* sys.modules: the directory's modules imported by name
    executed,           \* history: the files whose code has been run
    accepted,           \* history: the files the validator has accepted
    log,                \* the warnings and errors the loader has logged
    discovered,         \* history: the plugins registered, in discovery order
    \* ---- RestrictedPluginExecutor.execute (plugins/sandbox.py) ----
    request,            \* the plugin code handed to execute and how it behaves
    call,               \* where the calling process is in execute
    process,            \* the multiprocessing.Process running _execute_with_timeout
    result_queue,       \* the multiprocessing.Queue between worker and caller
    outcome,            \* how execute ended: the value returned or the exception raised
    ran,                \* history: which plugin code ran in which process
    delivered,          \* history: the worker put a result of the plugin method
    joined,             \* history: what process.join(timeout) left behind on return
    \* ---- PluginLoader.load_plugins and its environment ----
    entry_points,       \* the entry points of group "raglint.plugins"
    builtin_ctor,       \* what HallucinationPlugin() does in this environment
    cwd_plugins,        \* the plugin directory is ./plugins, the default directory
    ncalls,             \* the number of load_plugins calls made
    last,               \* history: the last load_plugins call
    runs,               \* history: how often each origin has been discovered
    installed,          \* history: the file install_plugin wrote last, and when
    \* ---- load_plugins called from a plugin constructor ----
    provider,           \* the provider of the configuration Config.load() reads
    stack,              \* the load_plugins calls in progress, the innermost last
    \* ---- LLMCache (cache.py) ----
    max_size,           \* LLMCache.max_size
    cache,              \* LLMCache._cache, in dict (insertion) order
    threads,            \* the callers of the cache: the call each is in and where
    errors,             \* history: the exceptions that calls of the cache raised
    lastop              \* history: the last call of the cache that returned

analyzerVars == <<data, use_smart_metrics, show_progress, path, failing, tasks,
                  arrived, batch, result, failedCalls>>
loaderVars == <<loaded, metric_plugins>>
validatorVars == <<src, verdict, vstate>>
discoveryVars == <<plugin_dir, todo, plugins, llm_plugins, sys_modules, executed, accepted,
                   log, discovered>>
sandboxVars == <<request, call, process, result_queue, outcome, ran, delivered, joined>>

callVars == <<entry_points, builtin_ctor, cwd_plugins, ncalls, last, runs, installed>>

reentryVars == <<provider, stack>>
cacheVars == <<max_size, cache, threads, errors, lastop>>

vars == <<analyzerVars, loaderVars, validatorVars, discoveryVars, sandboxVars, callVars,
          reentryVars, cacheVars>>

-----------------------------------------------------------------------------
(* Bounds *)

MaxItems == 2       \* longest input batch
MaxFailing == 1     \* most scorers configured to fail (besides "all of them")
MaxInstalls == 1    \* most install_plugin calls on one loader
MaxDepth == 3       \* most nested load_plugins calls the recursion limit admits
MaxSize == 2        \* largest max_size of an LLMCache
MaxThreads == 2     \* most threads that call one LLMCache

(* Program constants *)

None == -1
AsyncThreshold == 5

-----------------------------------------------------------------------------
(* Inputs *)

\* An evaluation item, reduced to what the orchestrator's control flow reads:
\* which of its fields are non-empty, the score the scorers give it when
\* they answer, and whether it makes a failing scorer raise.
\* An item also gives the lengths of its retrieved chunks and the values
\* the retrieval metrics take on its contexts.
ZeroMetrics == [precision |-> 0, recall |-> 0, mrr |-> 0, ndcg |-> 0]

ItemShapes ==
    { [query |-> "q1", retrieved_contexts |-> TRUE, ground_truth_contexts |-> TRUE,
       response |-> TRUE, score |-> 10, poison |-> TRUE,
       chunk_sizes |-> <<4, 9>>,
       retrieval |-> [precision |-> 5, recall |-> 10, mrr |-> 10, ndcg |-> 6]],
      [query |-> "q1", retrieved_contexts |-> TRUE, ground_truth_contexts |-> TRUE,
       response |-> TRUE, score |-> 10, poison |-> FALSE,
       chunk_sizes |-> <<4, 9>>,
       retrieval |-> [precision |-> 5, recall |-> 10, mrr |-> 10, ndcg |-> 6]],
      [query |-> "q2", retrieved_contexts |-> FALSE, ground_truth_contexts |-> FALSE,
       response |-> FALSE, score |-> 0, poison |-> TRUE,
       chunk_sizes |-> <<>>, retrieval |-> ZeroMetrics] }

\* The items of a batch analysed without smart metrics: also an item with
\* ground truth and nothing retrieved, and one with chunks and no ground truth.
BasicShapes ==
    { [query |-> "q1", retrieved_contexts |-> TRUE, ground_truth_contexts |-> TRUE,
       response |-> TRUE, score |-> 10, poison |-> FALSE,
       chunk_sizes |-> <<4, 9>>,
       retrieval |-> [precision |-> 5, recall |-> 10, mrr |-> 10, ndcg |-> 6]],
      [query |-> "q2", retrieved_contexts |-> FALSE, ground_truth_contexts |-> FALSE,
       response |-> FALSE, score |-> 0, poison |-> FALSE,
       chunk_sizes |-> <<>>, retrieval |-> ZeroMetrics],
      [query |-> "q3", retrieved_contexts |-> FALSE, ground_truth_contexts |-> TRUE,
       response |-> TRUE, score |-> 0, poison |-> FALSE,
       chunk_sizes |-> <<>>, retrieval |-> ZeroMetrics],
      [query |-> "q4", retrieved_contexts |-> TRUE, ground_truth_contexts |-> FALSE,
       response |-> FALSE, score |-> 0, poison |-> FALSE,
       chunk_sizes |-> <<6>>, retrieval |-> ZeroMetrics] }

BasicBatches == UNION { [1..n -> BasicShapes] : n \in 0..MaxItems }

Batches == UNION { [1..n -> ItemShapes] : n \in 0..MaxItems }

\* The metric plugins that discovery registers (two of the built-ins: one
\* with calculate_async, one with the synchronous score only).
BuiltinMetricPlugins ==
    << [name |-> "hallucination_score", has_calculate_async |-> TRUE],
       [name |-> "chunk_coverage", has_calculate_async |-> FALSE] >>

Stages == <<"faithfulness", "answer_relevance", "toxicity",
            "context_precision", "context_recall">>

StageNames == { Stages[k] : k \in 1..Len(Stages) }

Metrics == {"semantic"} \cup StageNames
             \cup { BuiltinMetricPlugins[j].name : j \in 1..Len(BuiltinMetricPlugins) }

FailingConfigs ==
    { F \in SUBSET Metrics : Cardinality(F) <= MaxFailing \/ (Metrics \ F) \subseteq {"semantic"} }

\* What a plugin's calculate_async hands back when it does not raise.
PluginReturnKinds == {"dict", "dict_noscore", "number", "junk"}

-----------------------------------------------------------------------------
(* The values of the validator's variables while it is not running. *)

NoName == <<>>
NoSource == [parse |-> "ok", body |-> <<>>]
NoVerdict == [accepted |-> FALSE, warned |-> NoName, error |-> "none", raised |-> FALSE]

(* The values of the sandbox's variables while no execute call is made. *)

NoRequest == [compile |-> "ok", module |-> "class", ctor |-> "ok", method |-> "returns",
              sigterm |-> "dies", peak_mb |-> 0, size |-> "small"]
NoJoin == [delivered |-> FALSE, rested |-> FALSE]
NoOutcome == [kind |-> "pending", value |-> "none"]

SandboxIdle ==
    /\ request = NoRequest
    /\ call = "unused"
    /\ process = "none"
    /\ result_queue = <<>>
    /\ outcome = NoOutcome
    /\ ran = {}
    /\ delivered = FALSE
    /\ joined = NoJoin

(* The values of the loader's call variables while load_plugins is not called. *)

NoDir == "None"
NoCall == [dir |-> NoDir, prev_dir |-> "no call", outcome |-> "none", before |-> {},
           seen |-> {}, discovery |-> FALSE, scans |-> 0]

NoInstall == [file |-> "none", calls |-> 0, count |-> 0]

LoaderIdle ==
    /\ installed = NoInstall
    /\ entry_points = <<>>
    /\ builtin_ctor = "none"
    /\ cwd_plugins = FALSE
    /\ ncalls = 0
    /\ last = NoCall
    /\ runs = [entry_points |-> 0, builtins |-> 0]

(* The values of the variables of a nested load while none is modelled. *)

ReentryIdle ==
    /\ provider = "mock"
    /\ stack = <<>>

(* The values of the cache's variables while the cache is not used. *)

NoOp == [op |-> "none"]

CacheIdle ==
    /\ max_size = 0
    /\ cache = <<>>
    /\ threads = <<>>
    /\ errors = {}
    /\ lastop = NoOp

-----------------------------------------------------------------------------
(* _process_item_async *)

Fails(m, item) == m \in failing /\ item.poison

StageIndex(s) == CHOOSE k \in 1..Len(Stages) : Stages[k] = s

StageField(s) ==
    CASE s = "faithfulness" -> "faithfulness_score"
      [] s = "answer_relevance" -> "answer_relevance_score"
      [] s = "toxicity" -> "toxicity_score"
      [] s = "context_precision" -> "context_precision"
      [] s = "context_recall" -> "context_recall"

\* The conditions guarding each awaited scorer call.
StageApplies(s, item) ==
    CASE s \in {"faithfulness", "answer_relevance", "toxicity"} -> item.response
      [] s = "context_precision" -> item.retrieved_contexts /\ item.response
      [] s = "context_recall" -> item.retrieved_contexts /\ item.ground_truth_contexts

\* The value each except-branch assigns.
ScorerDefault(s) ==
    CASE s = "faithfulness" -> 0
      [] s = "answer_relevance" -> 0
      [] s = "toxicity" -> 10
      [] s = "context_precision" -> None
      [] s = "context_recall" -> None

EmptyDict == [n \in {} |-> 0]

\* plugin_metrics[name] = value
PutMetric(pm, name, value) == [n \in (DOMAIN pm) \cup {name} |-> IF n = name THEN value ELSE pm[n]]

PluginError_skip(pm, name) == pm

\* except Exception: plugin_metrics[name] = 0.0
PluginError(pm, name) == PutMetric(pm, name, 0)

\* The locals of _process_item_async before the smart metrics.
InitialLocals(item) ==
    [ chunks |-> item.retrieved_contexts,
      coherence |-> item.retrieved_contexts,
      basic_metrics |-> IF item.ground_truth_contexts THEN 1 ELSE None,
      semantic_score |-> None,
      faithfulness_score |-> None,
      answer_relevance_score |-> None,
      toxicity_score |-> None,
      context_precision |-> None,
      context_recall |-> None,
      plugin_metrics |-> EmptyDict ]

load_plugins_skipped(ld) == ld

\* PluginLoader.load_plugins() without a directory.
load_plugins(ld) ==
    IF ld.loaded THEN ld
    ELSE [loaded |-> TRUE, metric_plugins |-> BuiltinMetricPlugins]

PluginIndex(plist, name) == CHOOSE j \in 1..Len(plist) : plist[j].name = name

\* The loop over loader.metric_plugins from its j-th entry, up to the next
\* await or to the return statement.
RECURSIVE RunPlugins(_, _, _, _, _)
RunPlugins(item, r, fl, ld, j) ==
    IF j > Len(ld.metric_plugins)
    THEN [st |-> "Done", at |-> "none", r |-> r, failed |-> fl, ld |-> ld]
    ELSE LET p == ld.metric_plugins[j] IN
         IF p.has_calculate_async
         THEN [st |-> "Running", at |-> p.name, r |-> r, failed |-> fl, ld |-> ld]
         ELSE IF Fails(p.name, item)
              THEN RunPlugins(item,
                              [r EXCEPT !.plugin_metrics = PluginError(@, p.name)],
                              fl \cup {p.name}, ld, j + 1)
              ELSE RunPlugins(item,
                              [r EXCEPT !.plugin_metrics = PutMetric(@, p.name, item.score)],
                              fl, ld, j + 1)

\* The awaited scorer calls from the k-th on, up to the next await.
RECURSIVE RunStages(_, _, _, _, _)
RunStages(item, r, fl, ld, k) ==
    IF k > Len(Stages)
    THEN RunPlugins(item, [r EXCEPT !.plugin_metrics = EmptyDict], fl, load_plugins(ld), 1)
    ELSE IF StageApplies(Stages[k], item)
         THEN [st |-> "Running", at |-> Stages[k], r |-> r, failed |-> fl, ld |-> ld]
         ELSE RunStages(item, r, fl, ld, k + 1)

\* From the first line of _process_item_async to its first await.
RunStart(item, smart, ld) ==
    LET r0 == InitialLocals(item) IN
    IF ~smart
    THEN [st |-> "Done", at |-> "none", r |-> r0, failed |-> {}, ld |-> ld]
    ELSE IF item.ground_truth_contexts /\ Fails("semantic", item)
         THEN [st |-> "Failed", at |-> "none", r |-> r0, failed |-> {"semantic"}, ld |-> ld]
         ELSE RunStages(item,
                        IF item.ground_truth_contexts
                        THEN [r0 EXCEPT !.semantic_score = item.score]
                        ELSE r0,
                        {}, ld, 1)

\* The "detailed" entry of the dictionary _process_item_async returns.
Detailed(item, r, smart) ==
    [ query |-> item.query,
      metrics |-> r.basic_metrics,
      coherence |-> r.coherence,
      semantic_score |-> r.semantic_score,
      faithfulness_score |-> IF smart /\ item.response THEN r.faithfulness_score ELSE None,
      context_precision |-> r.context_precision,
      context_recall |-> r.context_recall,
      plugin_metrics |-> r.plugin_metrics,
      answer_relevance_score |-> r.answer_relevance_score,
      toxicity_score |-> r.toxicity_score ]

-----------------------------------------------------------------------------
(* analyze_async *)

\* The order in which gather hands the results back: by position in the
\* argument list, whatever the order of completion.
RECURSIVE SortedInsert(_, _)
SortedInsert(s, x) ==
    IF s = <<>> THEN <<x>>
    ELSE IF x < Head(s) THEN <<x>> \o s
    ELSE <<Head(s)>> \o SortedInsert(Tail(s), x)

RECURSIVE SortByIndex(_)
SortByIndex(s) == IF s = <<>> THEN <<>> ELSE SortedInsert(SortByIndex(Tail(s)), Head(s))

GatherOrder_arrival(arr) == arr

GatherOrder(arr) == SortByIndex(arr)

RECURSIVE Collect(_, _, _)
\* The values of field f of the task results, in the order ord, None left out.
Collect(ord, f, ts) ==
    IF ord = <<>> THEN <<>>
    ELSE (IF ts[Head(ord)].r[f] # None THEN <<ts[Head(ord)].r[f]>> ELSE <<>>)
         \o Collect(Tail(ord), f, ts)

RECURSIVE SumSeq(_)
SumSeq(xs) == IF xs = <<>> THEN 0 ELSE Head(xs) + SumSeq(Tail(xs))

average_unguarded(xs) == IF xs = <<>> THEN None ELSE SumSeq(xs) \div Len(xs)

\* sum(xs) / len(xs) if xs else 0.0
average(xs) == IF xs = <<>> THEN 0 ELSE SumSeq(xs) \div Len(xs)

\* The integer part of the square root.
Isqrt(v) == CHOOSE r \in 0..v : r * r <= v /\ (r + 1) * (r + 1) > v

\* calculate_retrieval_metrics(retrieved, ground_truth): zeros when either
\* list is empty, the values of the item's contexts otherwise.
calculate_retrieval_metrics(item) ==
    IF item.ground_truth_contexts /\ item.retrieved_contexts THEN item.retrieval
    ELSE ZeroMetrics

\* calculate_chunk_size_distribution(chunks), on the lengths of the chunks;
\* the mean, the median and the deviation are rounded down.
calculate_chunk_size_distribution(sizes) ==
    IF sizes = <<>>
    THEN [min |-> 0, max |-> 0, mean |-> 0, median |-> 0, std |-> 0, count |-> 0]
    ELSE LET n == Len(sizes)
             sorted == SortByIndex(sizes)
             mean == SumSeq(sizes) \div n
         IN [min |-> sorted[1], max |-> sorted[n], mean |-> mean,
             median |-> IF n % 2 = 1 THEN sorted[(n + 1) \div 2]
                        ELSE (sorted[n \div 2] + sorted[n \div 2 + 1]) \div 2,
             std |-> Isqrt(SumSeq([k \in 1..n |-> (sizes[k] - mean) * (sizes[k] - mean)])
                           \div n),
             count |-> n]

RetrievalKeys == {"precision", "recall", "mrr", "ndcg"}

\* _analyze_sync: all_chunks.extend(retrieved) for every item.
RECURSIVE sync_all_chunks(_)
sync_all_chunks(d) ==
    IF d = <<>> THEN <<>> ELSE Head(d).chunk_sizes \o sync_all_chunks(Tail(d))

\* _analyze_sync: the values of a retrieval metric, of the items that have
\* ground truth.
RECURSIVE sync_retrieval(_, _)
sync_retrieval(d, key) ==
    IF d = <<>> THEN <<>>
    ELSE (IF Head(d).ground_truth_contexts
          THEN <<calculate_retrieval_metrics(Head(d))[key]>> ELSE <<>>)
         \o sync_retrieval(Tail(d), key)

\* analyze_async: all_chunks.extend(result["chunks"]) if result["chunks"].
RECURSIVE async_all_chunks(_, _, _)
async_all_chunks(ord, ts, d) ==
    IF ord = <<>> THEN <<>>
    ELSE (IF ts[Head(ord)].r.chunks THEN d[Head(ord)].chunk_sizes ELSE <<>>)
         \o async_all_chunks(Tail(ord), ts, d)

HasMetrics_nonzero(bm, m) == bm # None /\ m.precision # 0

\* if result["basic_metrics"]: a dict of the four metrics is true, None is not.
HasMetrics(bm, m) == bm # None

\* analyze_async: the values of a retrieval metric, of the results that
\* hold basic metrics.
RECURSIVE async_retrieval(_, _, _, _)
async_retrieval(ord, ts, d, key) ==
    IF ord = <<>> THEN <<>>
    ELSE LET m == calculate_retrieval_metrics(d[Head(ord)]) IN
         (IF HasMetrics(ts[Head(ord)].r.basic_metrics, m) THEN <<m[key]>> ELSE <<>>)
         \o async_retrieval(Tail(ord), ts, d, key)

\* The record _analyze_sync appends to detailed_results.
sync_detailed(item, semantic_score, faithfulness_score) ==
    [ query |-> item.query,
      metrics |-> IF item.ground_truth_contexts THEN 1 ELSE None,
      coherence |-> item.retrieved_contexts,
      semantic_score |-> semantic_score,
      faithfulness_score |-> faithfulness_score ]

TypeLoader == [loaded |-> loaded, metric_plugins |-> metric_plugins]

Idle == [st |-> "Pending", at |-> "none", r |-> <<>>]

\* The result under construction; the statistics are computed on return.
EmptyResult == [detailed_results |-> <<>>, semantic_scores |-> <<>>, faithfulness_scores |-> <<>>,
                chunk_stats |-> calculate_chunk_size_distribution(<<>>),
                retrieval_stats |-> ZeroMetrics]

Init ==
    /\ data \in Batches
    /\ use_smart_metrics \in BOOLEAN
    /\ \E entry \in {"analyze", "analyze_async"} :
          path = IF entry = "analyze" /\ ~(use_smart_metrics /\ Len(data) > AsyncThreshold)
                 THEN "sync" ELSE "async"
    /\ show_progress \in (IF path = "async" THEN BOOLEAN ELSE {FALSE})
    /\ failing \in (IF use_smart_metrics THEN FailingConfigs ELSE {{}})
    /\ loaded \in BOOLEAN
    /\ metric_plugins = IF loaded THEN BuiltinMetricPlugins ELSE <<>>
    /\ tasks = [i \in 1..Len(data) |-> Idle]
    /\ arrived = <<>>
    /\ batch = IF path = "sync" THEN "sync" ELSE "gather"
    /\ result = EmptyResult
    /\ failedCalls = [i \in 1..Len(data) |-> {}]
    /\ src = NoSource
    /\ verdict = NoVerdict
    /\ vstate = "idle"
    /\ plugin_dir = <<>>
    /\ todo = <<>>
    /\ plugins = <<>>
    /\ llm_plugins = <<>>
    /\ sys_modules = <<>>
    /\ executed = {}
    /\ accepted = {}
    /\ log = {}
    /\ discovered = <<>>
    /\ SandboxIdle
    /\ LoaderIdle
    /\ ReentryIdle
    /\ CacheIdle

\* What one step of a task leaves behind.
Settle(i, res) ==
    /\ tasks' = [tasks EXCEPT ![i] = [st |-> res.st, at |-> res.at, r |-> res.r]]
    /\ failedCalls' = [failedCalls EXCEPT ![i] = res.failed]
    /\ arrived' = IF res.st = "Done" THEN Append(arrived, i) ELSE arrived
    /\ loaded' = res.ld.loaded
    /\ metric_plugins' = res.ld.metric_plugins

\* The event loop starts the tasks in the order gather received them.
StartTask(i) ==
    /\ batch \in {"gather", "raised"}
    /\ tasks[i].st = "Pending"
    /\ \A j \in 1..(i - 1) : tasks[j].st # "Pending"
    /\ Settle(i, RunStart(data[i], use_smart_metrics, TypeLoader))
    /\ UNCHANGED <<sandboxVars, callVars, reentryVars, cacheVars, validatorVars, discoveryVars, data, use_smart_metrics, show_progress, path, failing, batch, result>>

\* An awaited scorer call of task i comes back (a value or an exception).
ScorerReturns(i) ==
    /\ batch \in {"gather", "raised"}
    /\ tasks[i].st = "Running"
    /\ tasks[i].at \in StageNames
    /\ LET s == tasks[i].at
           item == data[i]
           bad == Fails(s, item)
           r2 == [tasks[i].r EXCEPT ![StageField(s)] =
                      IF bad THEN ScorerDefault(s) ELSE item.score]
           fl == IF bad THEN failedCalls[i] \cup {s} ELSE failedCalls[i]
       IN Settle(i, RunStages(item, r2, fl, TypeLoader, StageIndex(s) + 1))
    /\ UNCHANGED <<sandboxVars, callVars, reentryVars, cacheVars, validatorVars, discoveryVars, data, use_smart_metrics, show_progress, path, failing, batch, result>>

\* An awaited plugin.calculate_async of task i comes back.
PluginReturns(i) ==
    /\ batch \in {"gather", "raised"}
    /\ tasks[i].st = "Running"
    /\ tasks[i].at \notin StageNames
    /\ tasks[i].at # "none"
    /\ LET name == tasks[i].at
           item == data[i]
           j == PluginIndex(metric_plugins, name)
       IN \E kind \in (IF Fails(name, item) THEN {"raise"} ELSE PluginReturnKinds) :
            LET bad == kind \in {"raise", "junk"}
                pm == IF bad THEN PluginError(tasks[i].r.plugin_metrics, name)
                      ELSE PutMetric(tasks[i].r.plugin_metrics, name,
                                     IF kind = "dict_noscore" THEN 0 ELSE item.score)
                r2 == [tasks[i].r EXCEPT !.plugin_metrics = pm]
                fl == IF bad THEN failedCalls[i] \cup {name} ELSE failedCalls[i]
            IN Settle(i, RunPlugins(item, r2, fl, TypeLoader, j + 1))
    /\ UNCHANGED <<sandboxVars, callVars, reentryVars, cacheVars, validatorVars, discoveryVars, data, use_smart_metrics, show_progress, path, failing, batch, result>>

\* gather delivers all results; analyze_async aggregates and returns.
GatherReturns ==
    /\ batch = "gather"
    /\ \A i \in 1..Len(data) : tasks[i].st = "Done"
    /\ LET ord == GatherOrder(arrived) IN
       result' = [ detailed_results |->
                       [k \in 1..Len(ord) |->
                           Detailed(data[ord[k]], tasks[ord[k]].r, use_smart_metrics)],
                   semantic_scores |-> Collect(ord, "semantic_score", tasks),
                   faithfulness_scores |-> Collect(ord, "faithfulness_score", tasks),
                   chunk_stats |->
                       calculate_chunk_size_distribution(async_all_chunks(ord, tasks, data)),
                   retrieval_stats |->
                       [key \in RetrievalKeys |->
                           average(async_retrieval(ord, tasks, data, key))] ]
    /\ batch' = "returned"
    /\ UNCHANGED <<sandboxVars, callVars, reentryVars, cacheVars, validatorVars, discoveryVars, data, use_smart_metrics, show_progress, path, failing, tasks, arrived,
                   failedCalls, loaded, metric_plugins>>

\* gather propagates the first exception of a task to analyze_async, which
\* has no handler; the other tasks are not cancelled.
GatherRaises ==
    /\ batch = "gather"
    /\ \E i \in 1..Len(data) : tasks[i].st = "Failed"
    /\ batch' = "raised"
    /\ UNCHANGED <<sandboxVars, callVars, reentryVars, cacheVars, validatorVars, discoveryVars, data, use_smart_metrics, show_progress, path, failing, tasks, arrived,
                   result, failedCalls, loaded, metric_plugins>>

-----------------------------------------------------------------------------
(* _analyze_sync *)

\* One iteration of the loop over data.
SyncItem ==
    /\ batch = "sync"
    /\ Len(result.detailed_results) < Len(data)
    /\ LET i == Len(result.detailed_results) + 1
           item == data[i]
           semRaises == use_smart_metrics /\ item.ground_truth_contexts /\ Fails("semantic", item)
           faithRaises == use_smart_metrics /\ item.response /\ Fails("faithfulness", item)
           semantic_score == IF use_smart_metrics /\ item.ground_truth_contexts
                             THEN item.score ELSE None
           faithfulness_score == IF use_smart_metrics /\ item.response
                                 THEN item.score ELSE None
       IN IF semRaises \/ faithRaises
          THEN /\ batch' = "raised"
               /\ failedCalls' = [failedCalls EXCEPT ![i] =
                                     IF semRaises THEN {"semantic"} ELSE {"faithfulness"}]
               /\ UNCHANGED result
          ELSE /\ result' =
                    [ detailed_results |-> Append(result.detailed_results,
                          sync_detailed(item, semantic_score, faithfulness_score)),
                      chunk_stats |-> result.chunk_stats,
                      retrieval_stats |-> result.retrieval_stats,
                      semantic_scores |->
                          IF semantic_score # None
                          THEN Append(result.semantic_scores, semantic_score)
                          ELSE result.semantic_scores,
                      faithfulness_scores |->
                          IF faithfulness_score # None
                          THEN Append(result.faithfulness_scores, faithfulness_score)
                          ELSE result.faithfulness_scores ]
               /\ UNCHANGED <<batch, failedCalls>>
    /\ UNCHANGED <<sandboxVars, callVars, reentryVars, cacheVars, validatorVars, discoveryVars, data, use_smart_metrics, show_progress, path, failing, tasks, arrived,
                   loaded, metric_plugins>>

\* The loop is over: the statistics are computed and the result returned.
SyncReturns ==
    /\ batch = "sync"
    /\ Len(result.detailed_results) = Len(data)
    /\ batch' = "returned"
    /\ result' = [result EXCEPT
                     !.chunk_stats = calculate_chunk_size_distribution(sync_all_chunks(data)),
                     !.retrieval_stats =
                         [key \in RetrievalKeys |-> average(sync_retrieval(data, key))]]
    /\ UNCHANGED <<sandboxVars, callVars, reentryVars, cacheVars, validatorVars, discoveryVars, data, use_smart_metrics, show_progress, path, failing, tasks, arrived,
                   failedCalls, loaded, metric_plugins>>

Next ==
    \/ \E i \in 1..Len(data) : StartTask(i)
    \/ \E i \in 1..Len(data) : ScorerReturns(i)
    \/ \E i \in 1..Len(data) : PluginReturns(i)
    \/ GatherReturns
    \/ GatherRaises
    \/ SyncItem
    \/ SyncReturns

Spec == Init /\ [][Next]_vars

\* Batches analysed with smart metrics off, through analyze (always the
\* synchronous path then) or through analyze_async called directly.
InitBasic ==
    /\ data \in BasicBatches
    /\ use_smart_metrics = FALSE
    /\ path \in {"sync", "async"}
    /\ show_progress \in (IF path = "async" THEN BOOLEAN ELSE {FALSE})
    /\ failing = {}
    /\ loaded \in BOOLEAN
    /\ metric_plugins = IF loaded THEN BuiltinMetricPlugins ELSE <<>>
    /\ tasks = [i \in 1..Len(data) |-> Idle]
    /\ arrived = <<>>
    /\ batch = IF path = "sync" THEN "sync" ELSE "gather"
    /\ result = EmptyResult
    /\ failedCalls = [i \in 1..Len(data) |-> {}]
    /\ src = NoSource
    /\ verdict = NoVerdict
    /\ vstate = "idle"
    /\ plugin_dir = <<>>
    /\ todo = <<>>
    /\ plugins = <<>>
    /\ llm_plugins = <<>>
    /\ sys_modules = <<>>
    /\ executed = {}
    /\ accepted = {}
    /\ log = {}
    /\ discovered = <<>>
    /\ SandboxIdle
    /\ LoaderIdle
    /\ ReentryIdle
    /\ CacheIdle

\* Without smart metrics a task has no await: it runs from start to return.
NextBasic ==
    \/ \E i \in 1..Len(data) : StartTask(i)
    \/ GatherReturns
    \/ SyncItem
    \/ SyncReturns

SpecBasic == InitBasic /\ [][NextBasic]_vars

-----------------------------------------------------------------------------
(* Properties of the orchestrator *)

Done(i) == tasks[i].st = "Done"

PluginNames == { metric_plugins[j].name : j \in 1..Len(metric_plugins) }

\* The score a record holds for metric m.
Recorded(rec, m) ==
    IF m \in StageNames THEN rec[StageField(m)]
    ELSE IF m = "semantic" THEN rec.semantic_score
    ELSE IF m \in DOMAIN rec.plugin_metrics THEN rec.plugin_metrics[m] ELSE None

\* The defaults the documentation gives: toxicity safe (1.0), everything
\* else 0.0.
DocumentedDefault(m) == IF m = "toxicity" THEN 10 ELSE 0

DefaultedMetrics == {"faithfulness", "answer_relevance", "toxicity",
                     "hallucination_score", "chunk_coverage"}

\* The plugin outcomes a record of the result holds.
PluginOutcomes(rec) ==
    IF "plugin_metrics" \in DOMAIN rec THEN DOMAIN rec.plugin_metrics ELSE {}

\* The calls that are outstanding (awaited and not yet back).
Outstanding == Cardinality({ i \in 1..Len(data) : tasks[i].st = "Running" /\ tasks[i].at # "none" })

\* The width of the semaphore the design document gives analyze().
concurrencyLimit == 1

\* C1: whenever analyze_async returns, detailed_results has one entry per
\* input item and its i-th entry is the record that the task of the i-th
\* item produced, whatever the order in which the tasks completed.
C1_AssembledByIndex ==
    (path = "async" /\ batch = "returned") =>
        /\ Len(result.detailed_results) = Len(data)
        /\ \A i \in 1..Len(data) :
              result.detailed_results[i] = Detailed(data[i], tasks[i].r, use_smart_metrics)

\* C1 witness: a returned batch of two different records whose second task
\* completed first, the first item having a failed metric.
C1_Witness ==
    /\ path = "async" /\ batch = "returned"
    /\ arrived = <<2, 1>>
    /\ failedCalls[1] # {}
    /\ result.detailed_results[1] # result.detailed_results[2]

\* C2: an exception raised by a metric call never leaves the processing of
\* its item: no item task ends with an exception and neither path of the
\* analyzer raises.
C2_CaughtAtCallSite ==
    /\ batch # "raised"
    /\ \A i \in 1..Len(data) : failedCalls[i] # {} => tasks[i].st # "Failed"

\* C3: every item task ends in a terminal state that carries a record:
\* there is no failed terminal state for a whole item.
C3_NoFailedItem == \A i \in 1..Len(data) : tasks[i].st \in {"Pending", "Running", "Done"}

\* C4: a failed metric call leaves the documented default in the record and
\* the record marks the outcome as failed, so that the record of an item
\* tells which of its metrics failed; the number of records is unchanged.
C4_DefaultAndMarked ==
    /\ batch # "raised"
    /\ \A i \in 1..Len(data) : Done(i) =>
          \A m \in failedCalls[i] \cap DefaultedMetrics :
              Recorded(tasks[i].r, m) = DocumentedDefault(m)
    /\ \A i, j \in 1..Len(data) :
          (Done(i) /\ Done(j)
             /\ Detailed(data[i], tasks[i].r, TRUE) = Detailed(data[j], tasks[j].r, TRUE))
          => failedCalls[i] = failedCalls[j]

\* C5: the number of outstanding scorer and plugin calls of the whole batch
\* never exceeds the concurrency limit.
C5_BoundedOutstanding == Outstanding <= concurrencyLimit

TaskReadsRegistry(i) ==
    /\ use_smart_metrics /\ path = "async"
    /\ \/ tasks[i].st = "Done"
       \/ tasks[i].st = "Running" /\ tasks[i].at \notin StageNames /\ tasks[i].at # "none"

\* C22: in every step of a batch, a task that has reached the registry
\* finds discovery completed, and once some task has reached it the loader's
\* metric plugins and its loaded flag do not change any more; every finished
\* task holds one entry for each plugin of that one set.
C22_DiscoveryBarrier ==
    [][ /\ \A i \in 1..Len(data) : TaskReadsRegistry(i)' => loaded'
        /\ (\E i \in 1..Len(data) : TaskReadsRegistry(i))
              => metric_plugins' = metric_plugins /\ loaded' = loaded
        /\ \A i \in 1..Len(data) :
              (use_smart_metrics /\ path = "async" /\ tasks'[i].st = "Done")
                 => DOMAIN tasks'[i].r.plugin_metrics
                      = { metric_plugins'[j].name : j \in 1..Len(metric_plugins') } ]_vars

\* C22 witness: two tasks wait inside the plugin loop at the same time, after
\* discovery.
C22_Witness ==
    /\ loaded /\ batch = "gather"
    /\ \E i, j \in 1..Len(data) :
          /\ i # j
          /\ TaskReadsRegistry(i) /\ tasks[i].st = "Running"
          /\ TaskReadsRegistry(j) /\ tasks[j].st = "Running"

\* C25: analyze on an empty batch returns no records, retrieval averages
\* that are all 0, chunk statistics that are all 0 and empty lists of
\* semantic and faithfulness scores.
C25_EmptyBatchIdentities ==
    (data = <<>> /\ path = "sync" /\ batch = "returned")
       => /\ result.detailed_results = <<>>
          /\ \A key \in RetrievalKeys : result.retrieval_stats[key] = 0
          /\ \A k \in DOMAIN result.chunk_stats : result.chunk_stats[k] = 0
          /\ DOMAIN result.chunk_stats = {"min", "max", "mean", "median", "std", "count"}
          /\ result.semantic_scores = <<>>
          /\ result.faithfulness_scores = <<>>

\* C25 witness: analyze has returned on the empty batch, with smart metrics
\* switched on.
C25_Witness ==
    data = <<>> /\ path = "sync" /\ batch = "returned" /\ use_smart_metrics

\* What _analyze_sync returns on batch d when smart metrics are off.
sync_result(d) ==
    [ chunk_stats |-> calculate_chunk_size_distribution(sync_all_chunks(d)),
      retrieval_stats |-> [key \in RetrievalKeys |-> average(sync_retrieval(d, key))],
      detailed_results |-> [i \in 1..Len(d) |-> sync_detailed(d[i], None, None)] ]

\* C28: with smart metrics off, what either path returns has the chunk
\* statistics, the retrieval averages and, item by item in input order, the
\* query, metrics and coherence that _analyze_sync computes on the batch.
C28_PathsAgree ==
    (~use_smart_metrics /\ batch = "returned")
       => LET s == sync_result(data) IN
          /\ result.chunk_stats = s.chunk_stats
          /\ result.retrieval_stats = s.retrieval_stats
          /\ Len(result.detailed_results) = Len(data)
          /\ \A i \in 1..Len(data) :
                /\ result.detailed_results[i].query = s.detailed_results[i].query
                /\ result.detailed_results[i].metrics = s.detailed_results[i].metrics
                /\ result.detailed_results[i].coherence = s.detailed_results[i].coherence

\* C28 witness: analyze_async has returned on a batch that holds an item
\* with retrieved chunks and ground truth and an item with ground truth and
\* nothing retrieved.
C28_Witness ==
    /\ ~use_smart_metrics /\ path = "async" /\ batch = "returned"
    /\ \E i, j \in 1..Len(data) :
          /\ data[i].ground_truth_contexts /\ data[i].retrieved_contexts
          /\ data[j].ground_truth_contexts /\ ~data[j].retrieved_contexts

-----------------------------------------------------------------------------
(* _validate_plugin_safety *)

MaxStmts == 2       \* most top-level statements of a source text

DANGEROUS_IMPORTS == {"os", "sys", "subprocess", "shutil", "pickle"}

\* Dotted module names, as sequences of their components.
ModuleNames == { <<"os">>, <<"os", "path">>, <<"random">>, <<"xml", "sys">> }

Stmt(kind, names, module, level, body) ==
    [kind |-> kind, names |-> names, module |-> module, level |-> level, body |-> body]

\* import a / import a, b
ImportStmts ==
    { Stmt("Import", <<n>>, NoName, 0, <<>>) : n \in ModuleNames }
      \cup { Stmt("Import", <<n, m>>, NoName, 0, <<>>) : n, m \in {<<"random">>, <<"os">>} }

\* from m import x / from .m import x / from . import x
ImportFromStmts ==
    { Stmt("ImportFrom", <<>>, n, l, <<>>) : n \in ModuleNames, l \in {0, 1} }
      \cup { Stmt("ImportFrom", <<>>, NoName, 1, <<>>) }

SimpleStmts == ImportStmts \cup ImportFromStmts \cup { Stmt("Other", <<>>, NoName, 0, <<>>) }

\* def f(): <statement>
CompoundStmts == { Stmt("FunctionDef", <<>>, NoName, 0, <<b>>) : b \in SimpleStmts }

Stmts == SimpleStmts \cup CompoundStmts

\* What ast.parse does with the text of the file.
ParseOutcomes == {"ok", "SyntaxError", "ValueError"}

SourceTexts ==
    { [parse |-> "ok", body |-> b] : b \in UNION { [1..n -> Stmts] : n \in 0..MaxStmts } }
      \cup { [parse |-> e, body |-> <<>>] : e \in ParseOutcomes \ {"ok"} }

\* ast.walk: breadth first, a node before its children.
RECURSIVE walk(_)
walk(queue) ==
    IF queue = <<>> THEN <<>>
    ELSE <<Head(queue)>> \o walk(Tail(queue) \o Head(queue).body)

IsDangerous_exact(name) == name \in { <<d>> : d \in DANGEROUS_IMPORTS }

\* name.split(".")[0] in DANGEROUS_IMPORTS
IsDangerous(name) == name # NoName /\ Head(name) \in DANGEROUS_IMPORTS

\* The name the warning of one node gives, NoName if the node passes.
NodeAlert(node) ==
    IF node.kind = "Import"
    THEN LET bad == { k \in 1..Len(node.names) : IsDangerous(node.names[k]) } IN
         IF bad = {} THEN NoName
         ELSE node.names[CHOOSE k \in bad : \A l \in bad : k <= l]
    ELSE IF node.kind = "ImportFrom" /\ node.module # NoName /\ IsDangerous(node.module)
         THEN node.module
         ELSE NoName

RECURSIVE FirstAlert(_)
FirstAlert(nodes) ==
    IF nodes = <<>> THEN NoName
    ELSE IF NodeAlert(Head(nodes)) # NoName THEN NodeAlert(Head(nodes))
    ELSE FirstAlert(Tail(nodes))

Handles_syntaxOnly(exc) == exc = "SyntaxError"

\* except Exception
Handles(exc) == TRUE

validate_plugin_safety(source) ==
    IF source.parse # "ok"
    THEN IF Handles(source.parse)
         THEN [accepted |-> FALSE, warned |-> NoName, error |-> source.parse, raised |-> FALSE]
         ELSE [accepted |-> FALSE, warned |-> NoName, error |-> "none", raised |-> TRUE]
    ELSE LET alert == FirstAlert(walk(source.body)) IN
         [accepted |-> alert = NoName, warned |-> alert, error |-> "none", raised |-> FALSE]

InitValidate ==
    /\ src \in SourceTexts
    /\ verdict = NoVerdict
    /\ vstate = "idle"
    /\ data = <<>>
    /\ use_smart_metrics = FALSE
    /\ show_progress = FALSE
    /\ path = "sync"
    /\ failing = {}
    /\ tasks = <<>>
    /\ arrived = <<>>
    /\ batch = "idle"
    /\ result = EmptyResult
    /\ failedCalls = <<>>
    /\ loaded = FALSE
    /\ metric_plugins = <<>>
    /\ plugin_dir = <<>>
    /\ todo = <<>>
    /\ plugins = <<>>
    /\ llm_plugins = <<>>
    /\ sys_modules = <<>>
    /\ executed = {}
    /\ accepted = {}
    /\ log = {}
    /\ discovered = <<>>
    /\ SandboxIdle
    /\ LoaderIdle
    /\ ReentryIdle
    /\ CacheIdle

Validate ==
    /\ vstate = "idle"
    /\ verdict' = validate_plugin_safety(src)
    /\ vstate' = "done"
    /\ UNCHANGED <<src, analyzerVars, loaderVars, discoveryVars, sandboxVars, callVars, reentryVars, cacheVars>>

NextValidate == Validate

SpecValidate == InitValidate /\ [][NextValidate]_vars

-----------------------------------------------------------------------------
(* Properties of the validator *)

\* The statements of a source text, at any depth.
RECURSIVE AllNodes(_)
AllNodes(body) ==
    IF body = <<>> THEN {}
    ELSE {Head(body)} \cup AllNodes(Head(body).body) \cup AllNodes(Tail(body))

\* The denylisted modules a source text imports: "import X..." and
\* "from X... import Y" (a relative "from .X import Y" names a module of
\* the plugin's own package and imports no root module).
DenylistedImports(source) ==
    { n \in ModuleNames :
        /\ Head(n) \in DANGEROUS_IMPORTS
        /\ \E node \in AllNodes(source.body) :
              \/ node.kind = "Import" /\ \E k \in 1..Len(node.names) : node.names[k] = n
              \/ node.kind = "ImportFrom" /\ node.level = 0 /\ node.module = n }

\* Every module name an import statement of the source gives.
ImportedNames(source) ==
    { n \in ModuleNames :
        \E node \in AllNodes(source.body) :
            \/ node.kind = "Import" /\ \E k \in 1..Len(node.names) : node.names[k] = n
            \/ node.kind = "ImportFrom" /\ node.module = n }

\* C7 (as stated): a source with an import of a denylisted root module is
\* rejected and the validator names that root module.
C7_NamesRoot ==
    vstate = "done" =>
        \A n \in DenylistedImports(src) :
            ~verdict.accepted /\ verdict.warned = <<Head(n)>>

\* C7 (amended): a source with an import of a denylisted root module is
\* rejected without an exception, and the module the warning names is the
\* full dotted name of an import of the source whose root is denylisted.
C7_RejectsDenylisted ==
    (vstate = "done" /\ DenylistedImports(src) # {}) =>
        /\ ~verdict.accepted
        /\ ~verdict.raised
        /\ verdict.warned \in ImportedNames(src)
        /\ Head(verdict.warned) \in DANGEROUS_IMPORTS

\* C7 witness: a rejected source whose denylisted import is dotted and sits
\* inside a function body, after a harmless top-level import.
C7_Witness ==
    /\ vstate = "done"
    /\ src.parse = "ok"
    /\ Len(src.body) = 2
    /\ src.body[1] = Stmt("Import", <<<<"random">>>>, NoName, 0, <<>>)
    /\ src.body[2] = Stmt("FunctionDef", <<>>, NoName, 0,
                          <<Stmt("ImportFrom", <<>>, <<"os", "path">>, 0, <<>>)>>)
    /\ ~verdict.accepted
    /\ verdict.warned = <<"os", "path">>

\* C8: a source that parses and imports no denylisted root module is
\* accepted.
C8_AcceptsClean ==
    (vstate = "done" /\ src.parse = "ok" /\ DenylistedImports(src) = {}) => verdict.accepted

\* C9: a source that does not parse is rejected, without an exception, and
\* the parse error is the reason logged.
C9_ParseErrorRejected ==
    (vstate = "done" /\ src.parse # "ok") =>
        /\ ~verdict.accepted
        /\ ~verdict.raised
        /\ verdict.error = src.parse

\* C9 witness: the validator has answered for a text that ast.parse refuses
\* with an error other than SyntaxError.
C9_Witness ==
    /\ vstate = "done"
    /\ src.parse = "ValueError"
    /\ ~verdict.accepted
    /\ verdict.error = "ValueError"

-----------------------------------------------------------------------------
(* _load_from_directory *)

\* The file stems of the plugin directory; "_h" starts with an underscore.
PluginFiles == {"a", "b", "_h"}

\* file_path.name.startswith("_")
IsPrivate(f) == f = "_h"

\* The plugin class a file defines: its attribute name in the module, the
\* name its instances answer, its interface, whether its constructor
\* succeeds, and the file that defines it.
ClassOf(f, ok) ==
    [cls |-> CASE f = "a" -> "ToxicityMetric" [] f = "b" -> "AzureLLM" [] f = "_h" -> "HelperMetric",
     name |-> CASE f = "a" -> "metric_a" [] f = "b" -> "llm_b" [] f = "_h" -> "metric_h",
     kind |-> IF f = "b" THEN "LLM" ELSE "Metric",
     instantiable |-> ok, origin |-> f]

\* from raglint.plugins.interface import PluginInterface: the abstract adapter
\* class of interface.py, which leaves BasePlugin.name abstract.
InterfaceModule == <<"raglint", "plugins", "interface">>
PluginInterface ==
    [cls |-> "PluginInterface", name |-> "", kind |-> "Metric",
     instantiable |-> FALSE, origin |-> "raglint"]

\* The name two plugins of different files may both answer.
SharedName == "shared"

FileContent(parse, body, classes) == [parse |-> parse, body |-> body, classes |-> classes]

\* The texts a file f of the directory may hold.
FileContents(f) ==
    \* a plugin class and nothing else
    { FileContent("ok", <<Stmt("Other", <<>>, NoName, 0, <<>>)>>, {ClassOf(f, ok)}) :
          ok \in BOOLEAN }
    \* a plugin class that imports os
    \cup { FileContent("ok", <<Stmt("Import", <<<<"os">>>>, NoName, 0, <<>>),
                             Stmt("Other", <<>>, NoName, 0, <<>>)>>, {ClassOf(f, TRUE)}) }
    \* a plugin class written against the imported interface class
    \cup { FileContent("ok", <<Stmt("ImportFrom", <<>>, InterfaceModule, 0, <<>>),
                             Stmt("Other", <<>>, NoName, 0, <<>>)>>, {ClassOf(f, TRUE)}) }
    \* a plugin class that answers the shared name
    \cup { FileContent("ok", <<Stmt("Other", <<>>, NoName, 0, <<>>)>>,
                       {[ClassOf(f, TRUE) EXCEPT !.name = SharedName]}) }
    \* a text that does not compile
    \cup { FileContent("SyntaxError", <<>>, {}) }
    \* import g
    \cup { FileContent("ok", <<Stmt("Import", <<<<g>>>>, NoName, 0, <<>>)>>, {}) :
              g \in PluginFiles \ {f} }
    \* from g import *
    \cup { FileContent("ok", <<Stmt("ImportFrom", <<>>, <<g>>, 0, <<>>)>>, {}) :
              g \in PluginFiles \ {f} }

Directories == { dr \in [PluginFiles -> UNION { FileContents(f) : f \in PluginFiles }] :
                   \A f \in PluginFiles : dr[f] \in FileContents(f) }

\* The orders in which glob may yield the files.
GlobOrders ==
    { o \in [1..Cardinality(PluginFiles) -> PluginFiles] :
        \A f \in PluginFiles : \E k \in DOMAIN o : o[k] = f }

\* The modules an import statement asks for.
ImportTargets(stmt) ==
    IF stmt.kind = "Import" THEN { stmt.names[k] : k \in 1..Len(stmt.names) }
    ELSE IF stmt.kind = "ImportFrom" /\ stmt.module # NoName THEN {stmt.module}
    ELSE {}

RECURSIVE exec_body(_, _, _, _, _, _)
RECURSIVE import_module(_, _, _, _)

\* "import g" while module code runs, with the directory first on sys.path:
\* a module of the directory that is not in sys.modules is executed.
import_module(dr, g, mods, ex) ==
    IF g \in DOMAIN mods THEN [ok |-> TRUE, mods |-> mods, ex |-> ex, ns |-> mods[g]]
    ELSE IF dr[g].parse # "ok" THEN [ok |-> FALSE, mods |-> mods, ex |-> ex, ns |-> {}]
    ELSE LET started == [m \in (DOMAIN mods) \cup {g} |-> IF m = g THEN {} ELSE mods[m]]
             r == exec_body(dr, dr[g].body, dr[g].classes, started, ex \cup {g}, {})
         IN IF r.ok
            THEN [ok |-> TRUE,
                  mods |-> [m \in DOMAIN r.mods |-> IF m = g THEN r.ns ELSE r.mods[m]],
                  ex |-> r.ex, ns |-> r.ns]
            ELSE [ok |-> FALSE,
                  mods |-> [m \in (DOMAIN r.mods) \ {g} |-> r.mods[m]],
                  ex |-> r.ex, ns |-> {}]

\* The top-level statements of a module, run in order; ns collects the
\* plugin classes its namespace holds at the end.
exec_body(dr, body, classes, mods, ex, ns) ==
    IF body = <<>> THEN [ok |-> TRUE, mods |-> mods, ex |-> ex, ns |-> ns \cup classes]
    ELSE LET stmt == Head(body)
             sib == { Head(n) : n \in ImportTargets(stmt) } \cap PluginFiles
         IN IF stmt.kind \in {"Import", "ImportFrom"} /\ stmt.level > 0
            THEN [ok |-> FALSE, mods |-> mods, ex |-> ex, ns |-> {}]
            ELSE IF stmt.kind = "ImportFrom" /\ stmt.module = InterfaceModule
            THEN exec_body(dr, Tail(body), classes, mods, ex, ns \cup {PluginInterface})
            ELSE IF sib = {}
            THEN exec_body(dr, Tail(body), classes, mods, ex, ns)
            ELSE LET g == CHOOSE x \in sib : TRUE
                     r == import_module(dr, g, mods, ex)
                 IN IF ~r.ok THEN [ok |-> FALSE, mods |-> r.mods, ex |-> r.ex, ns |-> {}]
                    ELSE exec_body(dr, Tail(body), classes, r.mods, r.ex,
                                   IF stmt.kind = "ImportFrom" THEN ns \cup r.ns ELSE ns)

\* d[entry.name] = entry, for a dict kept as the sequence of its values.
DictPut(dict, entry) ==
    IF \E k \in 1..Len(dict) : dict[k].name = entry.name
    THEN [k \in 1..Len(dict) |-> IF dict[k].name = entry.name THEN entry ELSE dict[k]]
    ELSE Append(dict, entry)

\* _register_plugin_class on the three indexes; a constructor that raises is
\* logged.  Two plugins of the same name are logged nowhere.
register_plugin_class(reg, c) ==
    IF ~c.instantiable
    THEN [reg EXCEPT !.log = @ \cup {<<"instantiate failed", c.cls>>}]
    ELSE [reg EXCEPT
          !.plugins = DictPut(@, [name |-> c.name, kind |-> c.kind, origin |-> c.origin]),
          !.llm_plugins = IF c.kind = "LLM"
                          THEN DictPut(@, [name |-> c.name, origin |-> c.origin])
                          ELSE @,
          !.metric_plugins = IF c.kind = "Metric"
                             THEN DictPut(@, [name |-> c.name, has_calculate_async |-> FALSE])
                             ELSE @,
          !.discovered = Append(@, [name |-> c.name, kind |-> c.kind, origin |-> c.origin])]

\* The position of a class in dir(module), which sorts the attribute names.
ClassRank(c) ==
    CASE c.cls = "AzureLLM" -> 1 [] c.cls = "HelperMetric" -> 2
      [] c.cls = "PluginInterface" -> 3 [] c.cls = "ToxicityMetric" -> 4

\* The scan of dir(module) of file f: each plugin class is registered and then
\* instantiated once more for the log line; for a class that cannot be
\* instantiated that second attr() raises and ends the scan of the file.
RECURSIVE scan_module(_, _, _)
scan_module(reg, ns, f) ==
    IF ns = {} THEN reg
    ELSE LET c == CHOOSE x \in ns : \A y \in ns : ClassRank(x) <= ClassRank(y)
             r == register_plugin_class(reg, c)
         IN IF c.instantiable
            THEN scan_module(r, ns \ {c}, f)
            ELSE [r EXCEPT !.log = @ \cup {<<"load failed", f>>}]

\* The registry as one record.
Registry ==
    [plugins |-> plugins, llm_plugins |-> llm_plugins, metric_plugins |-> metric_plugins,
     log |-> log, discovered |-> discovered]

InitDiscover ==
    /\ plugin_dir \in Directories
    /\ todo \in GlobOrders
    /\ plugins = <<>>
    /\ llm_plugins = <<>>
    /\ metric_plugins = <<>>
    /\ sys_modules = <<>>
    /\ executed = {}
    /\ accepted = {}
    /\ log = {}
    /\ discovered = <<>>
    /\ loaded = FALSE
    /\ src = NoSource
    /\ verdict = NoVerdict
    /\ vstate = "idle"
    /\ data = <<>>
    /\ use_smart_metrics = FALSE
    /\ show_progress = FALSE
    /\ path = "sync"
    /\ failing = {}
    /\ tasks = <<>>
    /\ arrived = <<>>
    /\ batch = "idle"
    /\ result = EmptyResult
    /\ failedCalls = <<>>
    /\ SandboxIdle
    /\ LoaderIdle
    /\ ReentryIdle
    /\ CacheIdle

\* A file whose name starts with an underscore is passed over.
SkipPrivate ==
    /\ todo # <<>>
    /\ IsPrivate(Head(todo))
    /\ todo' = Tail(todo)
    /\ UNCHANGED <<plugin_dir, plugins, llm_plugins, metric_plugins, sys_modules,
                   executed, accepted, log, discovered, loaded, analyzerVars, validatorVars, sandboxVars, callVars, reentryVars, cacheVars>>

\* A file the validator rejects is passed over with a warning.
SkipUnsafe ==
    /\ todo # <<>>
    /\ ~IsPrivate(Head(todo))
    /\ ~validate_plugin_safety(plugin_dir[Head(todo)]).accepted
    /\ todo' = Tail(todo)
    /\ log' = log \cup {<<"unsafe", Head(todo)>>}
    /\ UNCHANGED <<plugin_dir, plugins, llm_plugins, metric_plugins, sys_modules,
                   executed, accepted, discovered, loaded, analyzerVars, validatorVars, sandboxVars, callVars, reentryVars, cacheVars>>

\* A file the validator accepts is executed and its namespace scanned.
LoadFile ==
    /\ todo # <<>>
    /\ ~IsPrivate(Head(todo))
    /\ validate_plugin_safety(plugin_dir[Head(todo)]).accepted
    /\ LET f == Head(todo)
           r == exec_body(plugin_dir, plugin_dir[f].body, plugin_dir[f].classes,
                          sys_modules, executed \cup {f}, {})
           reg2 == IF r.ok THEN scan_module(Registry, r.ns, f)
                   ELSE [Registry EXCEPT !.log = @ \cup {<<"load failed", f>>}]
       IN /\ accepted' = accepted \cup {f}
          /\ executed' = r.ex
          /\ sys_modules' = r.mods
          /\ plugins' = reg2.plugins
          /\ llm_plugins' = reg2.llm_plugins
          /\ metric_plugins' = reg2.metric_plugins
          /\ log' = reg2.log
          /\ discovered' = reg2.discovered
    /\ todo' = Tail(todo)
    /\ UNCHANGED <<plugin_dir, loaded, analyzerVars, validatorVars, sandboxVars, callVars, reentryVars, cacheVars>>

NextDiscover ==
    \/ SkipPrivate
    \/ SkipUnsafe
    \/ LoadFile

SpecDiscover == InitDiscover /\ [][NextDiscover]_vars

-----------------------------------------------------------------------------
(* Properties of discovery *)

\* C10: the code of a file that the validator does not accept is never
\* run by discovery, and no plugin of such a file enters the registry.
C10_OnlyAcceptedCodeRuns ==
    /\ \A f \in executed : validate_plugin_safety(plugin_dir[f]).accepted
    /\ \A k \in 1..Len(plugins) : validate_plugin_safety(plugin_dir[plugins[k].origin]).accepted

\* C19: after the directory scan, every plugin class that an accepted file
\* defines and that can be instantiated is registered, also when the module
\* of the file holds another class that cannot be instantiated.
C19_AllClassesRegistered ==
    todo = <<>> =>
        \A f \in accepted : \A c \in plugin_dir[f].classes :
            c.instantiable => \E k \in 1..Len(plugins) : plugins[k].name = c.name

-----------------------------------------------------------------------------
(* load_plugins *)

MaxCalls == 2       \* most load_plugins calls made on the loader

\* The entry points of the environment: one whose load() raises, and one
\* that loads an LLM plugin answering the shared name.
EntryPoint(name, loads, c) == [name |-> name, loads |-> loads, class |-> c]
EntryPointLists ==
    { <<>>,
      << EntryPoint("broken", FALSE, PluginInterface),
         EntryPoint("shared_llm", TRUE,
                    [cls |-> "SharedLLM", name |-> SharedName, kind |-> "LLM",
                     instantiable |-> TRUE, origin |-> "entry point"]) >> }

\* What the constructor of a plugin class may raise.
CtorOutcomes == {"none", "ImportError", "ValueError"}

\* The plugin classes of raglint.plugins.builtins in the order of
\* dir(builtins); HallucinationPlugin() builds an LLM client from the
\* configuration, which raises in an environment that lacks the provider.
BuiltinClass(cls, name, throws) ==
    [cls |-> cls, name |-> name, kind |-> "Metric", instantiable |-> (throws = "none"),
     origin |-> "builtins", throws |-> throws]
BuiltinClasses(ctor) ==
    << BuiltinClass("ChunkCoveragePlugin", "chunk_coverage", "none"),
       BuiltinClass("HallucinationPlugin", "hallucination_score", ctor),
       BuiltinClass("ReadabilityPlugin", "readability", "none") >>

\* The directories load_plugins is run on: the files import no sibling.
LoadDirectories ==
    { dr \in Directories :
        /\ dr["_h"] = FileContent("ok", <<Stmt("Other", <<>>, NoName, 0, <<>>)>>,
                                  {ClassOf("_h", TRUE)})
        /\ \A f \in PluginFiles : \A k \in 1..Len(dr[f].body) :
              { Head(n) : n \in ImportTargets(dr[f].body[k]) } \cap PluginFiles = {} }

\* if self._loaded and not plugins_dir: return
AlreadyLoaded_never(ld, dir) == FALSE

AlreadyLoaded(ld, dir) == ld /\ dir = NoDir

\* _load_from_entry_points: each entry point is loaded and registered under
\* its own try.
RECURSIVE load_from_entry_points(_, _)
load_from_entry_points(reg, eps) ==
    IF eps = <<>> THEN reg
    ELSE LET ep == Head(eps)
             r == IF ep.loads THEN register_plugin_class(reg, ep.class)
                  ELSE [reg EXCEPT !.log = @ \cup {<<"entry point failed", ep.name>>}]
         IN load_from_entry_points([r EXCEPT !.seen = @ \cup {ep.name}], Tail(eps))

\* _load_builtins: each class is registered and then instantiated once more
\* for the log line, under one try that catches ImportError only.
RECURSIVE load_builtins(_, _)
load_builtins(reg, classes) ==
    IF classes = <<>> THEN reg
    ELSE LET c == Head(classes)
             r == [register_plugin_class(reg, c) EXCEPT !.seen = @ \cup {c.cls}]
         IN CASE c.throws = "none" -> load_builtins(r, Tail(classes))
              [] c.throws = "ImportError" ->
                     [r EXCEPT !.log = @ \cup {<<"builtins unavailable", "builtins">>}]
              [] OTHER -> [r EXCEPT !.raised = c.throws]

\* _load_from_directory: the files in the order glob yields them.
RECURSIVE load_from_directory(_, _, _)
load_from_directory(st, dr, order) ==
    IF order = <<>> THEN [st EXCEPT !.reg.scans = @ + 1]
    ELSE LET f == Head(order)
         IN IF IsPrivate(f) THEN load_from_directory(st, dr, Tail(order))
            ELSE IF ~validate_plugin_safety(dr[f]).accepted
            THEN load_from_directory(
                     [st EXCEPT !.reg.log = @ \cup {<<"unsafe", f>>},
                                !.reg.seen = @ \cup {f}], dr, Tail(order))
            ELSE LET r == exec_body(dr, dr[f].body, dr[f].classes, st.mods, st.ex \cup {f}, {})
                     seen == [st.reg EXCEPT !.seen = @ \cup {f}]
                     reg2 == IF r.ok THEN scan_module(seen, r.ns, f)
                             ELSE [seen EXCEPT !.log = @ \cup {<<"load failed", f>>}]
                 IN load_from_directory([reg |-> reg2, mods |-> r.mods, ex |-> r.ex,
                                         acc |-> st.acc \cup {f}], dr, Tail(order))

\* get_all_plugins: the descriptor of each registered plugin.  The source
\* of a plugin stands for the version and the description it declares.
Descriptor(p) == [name |-> p.name, type |-> p.kind, source |-> p.origin]
get_all_plugins(plist) == [k \in 1..Len(plist) |-> Descriptor(plist[k])]
Descriptors == { get_all_plugins(plugins)[k] : k \in 1..Len(plugins) }

\* get_llm_plugin(name): self.llm_plugins.get(name), as the source of the
\* plugin found, or NoName.
get_llm_plugin(name) ==
    IF \E k \in 1..Len(llm_plugins) : llm_plugins[k].name = name
    THEN llm_plugins[CHOOSE k \in 1..Len(llm_plugins) : llm_plugins[k].name = name].origin
    ELSE NoName

InitLoad ==
    /\ plugin_dir \in LoadDirectories
    /\ entry_points \in EntryPointLists
    /\ builtin_ctor \in CtorOutcomes
    /\ cwd_plugins \in BOOLEAN
    /\ ncalls = 0
    /\ last = NoCall
    /\ runs = [entry_points |-> 0, builtins |-> 0]
    /\ installed = NoInstall
    /\ loaded = FALSE
    /\ plugins = <<>>
    /\ llm_plugins = <<>>
    /\ metric_plugins = <<>>
    /\ log = {}
    /\ discovered = <<>>
    /\ sys_modules = <<>>
    /\ executed = {}
    /\ accepted = {}
    /\ todo = <<>>
    /\ src = NoSource
    /\ verdict = NoVerdict
    /\ vstate = "idle"
    /\ data = <<>>
    /\ use_smart_metrics = FALSE
    /\ show_progress = FALSE
    /\ path = "sync"
    /\ failing = {}
    /\ tasks = <<>>
    /\ arrived = <<>>
    /\ batch = "idle"
    /\ result = EmptyResult
    /\ failedCalls = <<>>
    /\ SandboxIdle
    /\ ReentryIdle
    /\ CacheIdle

\* The body of load_plugins past its first test: the entry points, the
\* built-ins, the supplied directory and then the default directory when it
\* exists; an exception of _load_builtins ends the call.
discover_all(st, dir, o1, o2) ==
    LET reg1 == load_builtins(load_from_entry_points(st.reg, entry_points),
                              BuiltinClasses(builtin_ctor))
        st1 == [st EXCEPT !.reg = reg1]
        st2 == IF dir # NoDir THEN load_from_directory(st1, plugin_dir, o1) ELSE st1
    IN IF reg1.raised # "none" THEN st1
       ELSE IF cwd_plugins THEN load_from_directory(st2, plugin_dir, o2) ELSE st2

\* The orders glob may yield in a scan that takes place.
ScanOrders(scanned) == IF scanned THEN GlobOrders ELSE {<<>>}

\* One call load_plugins(plugins_dir).  A supplied plugins_dir is the plugin
\* directory; the default directory is scanned after it when it exists.
LoadPlugins ==
    /\ ncalls < MaxCalls
    /\ \E dir \in {NoDir, "dir"} :
        LET prev == IF ncalls = 0 THEN "no call" ELSE last.dir
        IN IF AlreadyLoaded(loaded, dir)
           THEN /\ last' = [dir |-> dir, prev_dir |-> prev, outcome |-> "returned",
                            before |-> Descriptors, seen |-> {}, discovery |-> FALSE,
                            scans |-> 0]
                /\ UNCHANGED <<loaded, plugins, llm_plugins, metric_plugins, log, discovered,
                               sys_modules, executed, accepted, runs>>
           ELSE \E o1 \in ScanOrders(dir # NoDir), o2 \in ScanOrders(cwd_plugins) :
                \E end \in { discover_all(
                                [reg |-> [plugins |-> plugins, llm_plugins |-> llm_plugins,
                                          metric_plugins |-> metric_plugins, log |-> log,
                                          discovered |-> discovered, seen |-> {},
                                          raised |-> "none", scans |-> 0],
                                 mods |-> sys_modules, ex |-> executed, acc |-> accepted],
                                dir, o1, o2) } :
                /\ last' = [dir |-> dir, prev_dir |-> prev,
                            outcome |-> IF end.reg.raised # "none" THEN "raised"
                                        ELSE "returned",
                            before |-> Descriptors, seen |-> end.reg.seen,
                            discovery |-> TRUE, scans |-> end.reg.scans]
                /\ loaded' = (loaded \/ end.reg.raised = "none")
                /\ plugins' = end.reg.plugins
                /\ llm_plugins' = end.reg.llm_plugins
                /\ metric_plugins' = end.reg.metric_plugins
                /\ log' = end.reg.log
                /\ discovered' = end.reg.discovered
                /\ sys_modules' = end.mods
                /\ executed' = end.ex
                /\ accepted' = end.acc
                /\ runs' = [entry_points |-> runs.entry_points + 1,
                            builtins |-> runs.builtins + 1]
    /\ ncalls' = ncalls + 1
    /\ UNCHANGED <<plugin_dir, todo, entry_points, builtin_ctor, cwd_plugins, installed,
                   analyzerVars, validatorVars, sandboxVars, reentryVars, cacheVars>>

\* The texts install_plugin writes: the code it downloaded, a plugin class
\* that loads, or the code _generate_mock_plugin_code returns, a subclass of
\* MetricPlugin that defines neither score nor metric_type and so cannot be
\* instantiated.
InstalledContents(f) ==
    { FileContent("ok", <<Stmt("Other", <<>>, NoName, 0, <<>>)>>, {ClassOf(f, downloaded)}) :
          downloaded \in BOOLEAN }

\* PluginRegistry.install_plugin(plugin_name) with the default target_dir:
\* it writes plugins/<safe_name>.py, over the file of that name if there is
\* one, and returns True.  The default directory is the plugin directory.
InstallPlugin ==
    /\ cwd_plugins
    /\ installed.count < MaxInstalls
    /\ \E f \in { g \in PluginFiles : ~IsPrivate(g) } :
        \E code \in InstalledContents(f) :
          /\ plugin_dir' = [plugin_dir EXCEPT ![f] = code]
          /\ installed' = [file |-> f, calls |-> ncalls, count |-> installed.count + 1]
    /\ UNCHANGED <<loaded, plugins, llm_plugins, metric_plugins, log, discovered,
                   sys_modules, executed, accepted, todo, entry_points, builtin_ctor,
                   cwd_plugins, ncalls, last, runs,
                   analyzerVars, validatorVars, sandboxVars, reentryVars, cacheVars>>

NextLoad ==
    \/ LoadPlugins
    \/ InstallPlugin

SpecLoad == InitLoad /\ [][NextLoad]_vars

-----------------------------------------------------------------------------
(* Properties of load_plugins *)

\* C16: the second of two load_plugins calls in a row without a plugins_dir
\* leaves the registry with the descriptor set the first call left.
C16_Idempotent ==
    (ncalls >= 2 /\ last.dir = NoDir /\ last.prev_dir = NoDir) => Descriptors = last.before

\* C16 witness: two calls without a plugins_dir on a loader whose default
\* directory holds two files that answer the same plugin name.
C16_Witness ==
    /\ ncalls = 2
    /\ last.dir = NoDir
    /\ last.prev_dir = NoDir
    /\ cwd_plugins
    /\ \E d \in Descriptors : d.name = SharedName /\ d.source \in PluginFiles
    /\ \E k \in 1..Len(discovered) :
          discovered[k].name = SharedName /\ discovered[k] \notin {
              [name |-> d.name, kind |-> d.type, origin |-> d.source] : d \in Descriptors }

\* C17: over any sequence of load_plugins calls, the built-in and the
\* entry-point origins are discovered at most once, and a call that supplies
\* a plugins_dir scans it.
C17_OriginsOnce ==
    /\ runs.builtins <= 1
    /\ runs.entry_points <= 1
    /\ (ncalls > 0 /\ last.dir # NoDir) => last.scans >= 1

\* The sources a discovery that scans the directory has to process.
BuiltinSources == { BuiltinClasses(builtin_ctor)[k].cls : k \in 1..3 }
EntryPointSources == { entry_points[k].name : k \in 1..Len(entry_points) }
FileSources == { f \in PluginFiles : ~IsPrivate(f) }

\* C18: a load_plugins call that runs discovery returns normally, marks the
\* loader as loaded and has processed every source, whichever of them failed.
C18_FailureIsolated ==
    (ncalls > 0 /\ last.discovery) =>
        /\ last.outcome = "returned"
        /\ loaded
        /\ EntryPointSources \cup BuiltinSources \subseteq last.seen
        /\ (last.dir # NoDir \/ cwd_plugins) => FileSources \subseteq last.seen

\* The plugins discovered under a name, in discovery order.
RECURSIVE DiscoveredAs(_, _)
DiscoveredAs(name, ds) ==
    IF ds = <<>> THEN <<>>
    ELSE IF Head(ds).name = name THEN <<Head(ds)>> \o DiscoveredAs(name, Tail(ds))
    ELSE DiscoveredAs(name, Tail(ds))

\* The names under which plugins of two different sources were discovered.
Collisions ==
    { discovered[k].name : k \in { i \in 1..Len(discovered) :
          \E j \in 1..Len(discovered) : /\ discovered[j].name = discovered[i].name
                                        /\ discovered[j].origin # discovered[i].origin } }

\* C20: for a name two plugins were discovered under, every lookup returns
\* the plugin discovered last, and the collision has been logged as a warning.
C20_LastWinsWithWarning ==
    \A n \in Collisions :
        LET ds == DiscoveredAs(n, discovered)
            winner == ds[Len(ds)]
        IN /\ \E d \in Descriptors : d.name = n /\ d.source = winner.origin
           /\ get_llm_plugin(n) \in {NoName, winner.origin}
           /\ <<"name collision", n>> \in log

\* A query of the registry as a call: whether it raised, and its value.
\* Neither method reads _loaded and neither has a raise statement.
get_llm_plugin_call(name) == [raised |-> "none", value |-> get_llm_plugin(name)]
get_all_plugins_call == [raised |-> "none", value |-> get_all_plugins(plugins)]

\* The names a lookup may ask for.
LookupNames == {SharedName, "llm_b", "metric_a"}

\* C21: while discovery has not completed, a lookup by name and a listing
\* of the registry fail with an error; neither answers with a value.
C21_QueryNeedsDiscovery ==
    ~loaded =>
        /\ get_all_plugins_call.raised # "none"
        /\ \A n \in LookupNames : get_llm_plugin_call(n).raised # "none"

\* C26: every entry of llm_plugins and of metric_plugins is the plugin that
\* plugins holds under the same name.
C26_IndexesAgree ==
    /\ \A k \in 1..Len(llm_plugins) :
          \E j \in 1..Len(plugins) : /\ plugins[j].name = llm_plugins[k].name
                                     /\ plugins[j].origin = llm_plugins[k].origin
                                     /\ plugins[j].kind = "LLM"
    /\ \A k \in 1..Len(metric_plugins) :
          \E j \in 1..Len(plugins) : /\ plugins[j].name = metric_plugins[k].name
                                     /\ plugins[j].kind = "Metric"

\* C30: after install_plugin wrote a plugin file into the default directory,
\* the load_plugins() call that follows it leaves the plugin of that file
\* in the registry, also on a loader that had completed a load before.
C30_InstalledIsAvailable ==
    (installed.file # "none" /\ ncalls = installed.calls + 1 /\ last.dir = NoDir) =>
        \E k \in 1..Len(plugins) :
            /\ plugins[k].origin = installed.file
            /\ \E c \in plugin_dir[installed.file].classes : plugins[k].name = c.name

-----------------------------------------------------------------------------
(* load_plugins called from the constructor of a built-in plugin *)

\* The providers a configuration may name: two of LLMFactory's own and the
\* LLM plugin of file b.
Providers == {"mock", "openai", "llm_b"}

\* The provider names LLMFactory.create answers without the loader.
BuiltinProviders == {"openai", "ollama", "mock", "azure", "bedrock"}

\* LLMFactory.create(config) reaches loader.load_plugins().
create_loads_plugins(prov) == prov \notin BuiltinProviders

\* A load_plugins call in progress: the class of dir(builtins) that
\* _load_builtins is at, and whether it is about to register it
\* (_register_plugin_class(attr)) or to instantiate it for the log line
\* (attr().name).
Frame(k, phase) == [k |-> k, phase |-> phase]

NumBuiltins == Len(BuiltinClasses("none"))

\* The registry the loader holds.
CurrentRegistry ==
    [plugins |-> plugins, llm_plugins |-> llm_plugins, metric_plugins |-> metric_plugins,
     log |-> log, discovered |-> discovered, seen |-> {}, raised |-> "none", scans |-> 0]

SetRegistry(reg) ==
    /\ plugins' = reg.plugins
    /\ llm_plugins' = reg.llm_plugins
    /\ metric_plugins' = reg.metric_plugins
    /\ log' = reg.log
    /\ discovered' = reg.discovered

\* The directories of this environment: b.py defines the LLM plugin llm_b.
ReenterDirectories ==
    { dr \in LoadDirectories :
        dr["b"] = FileContent("ok", <<Stmt("Other", <<>>, NoName, 0, <<>>)>>,
                              {ClassOf("b", TRUE)}) }

InitReenter ==
    /\ provider \in Providers
    /\ stack = <<>>
    /\ plugin_dir \in ReenterDirectories
    /\ entry_points \in EntryPointLists
    /\ builtin_ctor = "none"
    /\ cwd_plugins \in BOOLEAN
    /\ ncalls = 0
    /\ last = NoCall
    /\ runs = [entry_points |-> 0, builtins |-> 0]
    /\ installed = NoInstall
    /\ loaded = FALSE
    /\ plugins = <<>>
    /\ llm_plugins = <<>>
    /\ metric_plugins = <<>>
    /\ log = {}
    /\ discovered = <<>>
    /\ sys_modules = <<>>
    /\ executed = {}
    /\ accepted = {}
    /\ todo = <<>>
    /\ src = NoSource
    /\ verdict = NoVerdict
    /\ vstate = "idle"
    /\ data = <<>>
    /\ use_smart_metrics = FALSE
    /\ show_progress = FALSE
    /\ path = "sync"
    /\ failing = {}
    /\ tasks = <<>>
    /\ arrived = <<>>
    /\ batch = "idle"
    /\ result = EmptyResult
    /\ failedCalls = <<>>
    /\ SandboxIdle
    /\ CacheIdle

reenterFixed == <<plugin_dir, todo, entry_points, builtin_ctor, cwd_plugins, installed, runs,
                  provider, analyzerVars, validatorVars, sandboxVars, cacheVars>>

\* A call load_plugins() from the application: the first test, then
\* _load_from_entry_points, up to the first constructor of _load_builtins.
CallLoad ==
    /\ stack = <<>>
    /\ ncalls < MaxCalls
    /\ ncalls' = ncalls + 1
    /\ IF AlreadyLoaded(loaded, NoDir)
       THEN /\ last' = [NoCall EXCEPT !.outcome = "returned"]
            /\ UNCHANGED <<stack, plugins, llm_plugins, metric_plugins, log, discovered>>
       ELSE /\ last' = [NoCall EXCEPT !.outcome = "running", !.discovery = TRUE]
            /\ SetRegistry(load_from_entry_points(CurrentRegistry, entry_points))
            /\ stack' = <<Frame(1, "register")>>
    /\ UNCHANGED <<loaded, sys_modules, executed, accepted, reenterFixed>>

\* The constructor call returned: _register_plugin_class stores the plugin,
\* or the log line is written and the loop goes on.
Succeed(reg, fr) ==
    IF fr.phase = "register"
    THEN [reg |-> register_plugin_class(reg, BuiltinClasses("none")[fr.k]),
          frame |-> Frame(fr.k, "log")]
    ELSE [reg |-> reg, frame |-> Frame(fr.k + 1, "register")]

\* An exception raised in the constructor call of the innermost load:
\* _register_plugin_class catches it (except Exception); around attr().name
\* only ImportError is caught, so the load ends with the exception, which
\* is then raised in the constructor call of the load that called it.
RECURSIVE Unwind(_)
Unwind(st) ==
    IF st = <<>> THEN [stack |-> <<>>, caught |-> FALSE]
    ELSE LET top == st[Len(st)] IN
         IF top.phase = "register"
         THEN [stack |-> [st EXCEPT ![Len(st)] = Frame(top.k, "log")], caught |-> TRUE]
         ELSE Unwind(SubSeq(st, 1, Len(st) - 1))

\* The innermost load instantiates its next built-in class.
\* HallucinationPlugin() calls LLMFactory.create(Config.load().as_dict()),
\* which for a provider it does not know calls load_plugins() on the same
\* loader; at the recursion limit that call raises RecursionError.
Construct ==
    /\ stack # <<>>
    /\ stack[Len(stack)].k <= NumBuiltins
    /\ LET top == stack[Len(stack)]
           c == BuiltinClasses("none")[top.k]
           nested == /\ c.cls = "HallucinationPlugin"
                     /\ create_loads_plugins(provider)
                     /\ ~AlreadyLoaded(loaded, NoDir)
       IN IF nested /\ Len(stack) < MaxDepth
          THEN /\ SetRegistry(load_from_entry_points(CurrentRegistry, entry_points))
               /\ stack' = Append(stack, Frame(1, "register"))
               /\ UNCHANGED last
          ELSE IF nested
          THEN LET u == Unwind(stack) IN
               /\ stack' = u.stack
               /\ log' = IF u.caught THEN log \cup {<<"instantiate failed", c.cls>>} ELSE log
               /\ last' = IF u.stack = <<>> THEN [last EXCEPT !.outcome = "raised"] ELSE last
               /\ UNCHANGED <<plugins, llm_plugins, metric_plugins, discovered>>
          ELSE LET r == Succeed(CurrentRegistry, top) IN
               /\ SetRegistry(r.reg)
               /\ stack' = [stack EXCEPT ![Len(stack)] = r.frame]
               /\ UNCHANGED last
    /\ UNCHANGED <<loaded, ncalls, sys_modules, executed, accepted, reenterFixed>>

\* The innermost load leaves _load_builtins: it scans the default directory
\* when there is one, sets _loaded and returns; a load that a constructor
\* called returns into LLMFactory.create, and the constructor completes.
FinishLoad ==
    /\ stack # <<>>
    /\ stack[Len(stack)].k > NumBuiltins
    /\ \E o \in ScanOrders(cwd_plugins) :
       \E end \in { IF cwd_plugins
                    THEN load_from_directory([reg |-> CurrentRegistry, mods |-> sys_modules,
                                              ex |-> executed, acc |-> accepted],
                                             plugin_dir, o)
                    ELSE [reg |-> CurrentRegistry, mods |-> sys_modules,
                          ex |-> executed, acc |-> accepted] } :
         LET rest == SubSeq(stack, 1, Len(stack) - 1)
             r == IF rest = <<>> THEN [reg |-> end.reg, frame |-> Frame(0, "none")]
                  ELSE Succeed(end.reg, rest[Len(rest)])
         IN /\ SetRegistry(r.reg)
            /\ stack' = IF rest = <<>> THEN <<>> ELSE [rest EXCEPT ![Len(rest)] = r.frame]
            /\ last' = IF rest = <<>> THEN [last EXCEPT !.outcome = "returned"] ELSE last
            /\ sys_modules' = end.mods
            /\ executed' = end.ex
            /\ accepted' = end.acc
    /\ loaded' = TRUE
    /\ UNCHANGED <<ncalls, reenterFixed>>

NextReenter ==
    \/ CallLoad
    \/ Construct
    \/ FinishLoad

SpecReenter == InitReenter /\ [][NextReenter]_vars

\* C27: no load_plugins call is entered on a loader while another
\* load_plugins call is in progress on it, whatever the constructors of the
\* built-in plugins do.
C27_NeverReentered == Len(stack) <= 1

-----------------------------------------------------------------------------
(* LLMCache *)

\* Model names and prompts, as texts (sequences of characters).
Models == { <<"m">>, <<"m", ":", "x">> }
Prompts == { <<"p">>, <<"x", ":", "p">> }

\* _make_key: the digest of f"{model}:{prompt}".  The digest stands for the
\* text it is taken of: different texts have different digests.
make_key(prompt, model) == model \o <<":">> \o prompt

\* The response the LLM gave to a prompt under a model, which agenerate
\* hands to cache.set(prompt, result, self.model).
Response(prompt, model) == [prompt |-> prompt, model |-> model]

NoResponse == [prompt |-> <<>>, model |-> <<>>]

IdleThread == [pc |-> "idle", prompt |-> <<>>, model |-> <<>>, evicts |-> FALSE,
               first_key |-> <<>>, at |-> 0]

\* The keys of the dict, in insertion order.
Keys(c) == [k \in 1..Len(c) |-> c[k].key]

KeySet(ks) == { ks[k] : k \in 1..Len(ks) }

KeyIndex(c, key) == CHOOSE k \in 1..Len(c) : c[k].key = key

\* ks with x put at place i (at the end, when other threads have shortened ks).
InsertAt(ks, i, x) ==
    LET j == IF i > Len(ks) + 1 THEN Len(ks) + 1 ELSE i
    IN [k \in 1..(Len(ks) + 1) |-> IF k < j THEN ks[k] ELSE IF k = j THEN x ELSE ks[k - 1]]

\* self._cache.get(key)
cache_get(c, key) ==
    IF \E k \in 1..Len(c) : c[k].key = key
    THEN [found |-> TRUE, value |-> c[CHOOSE k \in 1..Len(c) : c[k].key = key].value]
    ELSE [found |-> FALSE, value |-> NoResponse]

\* self._cache[key] = response: a key the dict holds keeps its place.
cache_put(c, key, value) ==
    IF \E k \in 1..Len(c) : c[k].key = key
    THEN [k \in 1..Len(c) |-> IF c[k].key = key THEN [key |-> key, value |-> value] ELSE c[k]]
    ELSE Append(c, [key |-> key, value |-> value])

\* del self._cache[key]
RECURSIVE cache_del(_, _)
cache_del(c, key) ==
    IF c = <<>> THEN <<>>
    ELSE IF Head(c).key = key THEN Tail(c)
    ELSE <<Head(c)>> \o cache_del(Tail(c), key)

first_key_latest(c) == c[Len(c)].key

\* next(iter(self._cache)): the first key in insertion order.
first_key(c) == c[1].key

\* LLMCache(max_size) used by one caller.
InitCacheSeq ==
    /\ max_size \in 0..MaxSize
    /\ cache = <<>>
    /\ threads = <<IdleThread>>
    /\ errors = {}
    /\ lastop = NoOp
    /\ data = <<>>
    /\ use_smart_metrics = FALSE
    /\ show_progress = FALSE
    /\ path = "sync"
    /\ failing = {}
    /\ tasks = <<>>
    /\ arrived = <<>>
    /\ batch = "idle"
    /\ result = EmptyResult
    /\ failedCalls = <<>>
    /\ loaded = FALSE
    /\ metric_plugins = <<>>
    /\ src = NoSource
    /\ verdict = NoVerdict
    /\ vstate = "idle"
    /\ plugin_dir = <<>>
    /\ todo = <<>>
    /\ plugins = <<>>
    /\ llm_plugins = <<>>
    /\ sys_modules = <<>>
    /\ executed = {}
    /\ accepted = {}
    /\ log = {}
    /\ discovered = <<>>
    /\ SandboxIdle
    /\ LoaderIdle
    /\ ReentryIdle

cacheOthers == <<analyzerVars, loaderVars, validatorVars, discoveryVars, sandboxVars,
                 callVars, reentryVars>>

\* get(prompt, model), one dict lookup.
Get(t) ==
    /\ threads[t].pc = "idle"
    /\ \E prompt \in Prompts, model \in Models :
        LET r == cache_get(cache, make_key(prompt, model)) IN
        lastop' = [op |-> "get", prompt |-> prompt, model |-> model,
                   found |-> r.found, value |-> r.value]
    /\ UNCHANGED <<max_size, cache, threads, errors, cacheOthers>>

\* clear()
Clear(t) ==
    /\ threads[t].pc = "idle"
    /\ cache' = <<>>
    /\ lastop' = [op |-> "clear"]
    /\ UNCHANGED <<max_size, threads, errors, cacheOthers>>

\* set(prompt, response, model) up to its test len(self._cache) >= self.max_size.
SetTest(t) ==
    /\ threads[t].pc = "idle"
    /\ \E prompt \in Prompts, model \in Models :
        threads' = [threads EXCEPT ![t] =
                       [pc |-> IF Len(cache) >= max_size THEN "pick" ELSE "store",
                        prompt |-> prompt, model |-> model,
                        evicts |-> Len(cache) >= max_size, first_key |-> <<>>,
                        at |-> 0]]
    /\ UNCHANGED <<max_size, cache, errors, lastop, cacheOthers>>

\* first_key = next(iter(self._cache)); StopIteration on an empty dict.
SetPick(t) ==
    /\ threads[t].pc = "pick"
    /\ IF cache = <<>>
       THEN /\ errors' = errors \cup {"StopIteration"}
            /\ threads' = [threads EXCEPT ![t] = IdleThread]
       ELSE /\ threads' = [threads EXCEPT ![t].pc = "del", ![t].first_key = first_key(cache)]
            /\ UNCHANGED errors
    /\ UNCHANGED <<max_size, cache, lastop, cacheOthers>>

\* del self._cache[first_key]; KeyError when the key is gone.
SetDel(t) ==
    /\ threads[t].pc = "del"
    /\ IF threads[t].first_key \in KeySet(Keys(cache))
       THEN /\ cache' = cache_del(cache, threads[t].first_key)
            \* history: the place of the key in the dict it is removed from
            /\ threads' = [threads EXCEPT ![t].pc = "store",
                                          ![t].at = KeyIndex(cache, threads[t].first_key)]
            /\ UNCHANGED errors
       ELSE /\ errors' = errors \cup {"KeyError"}
            /\ threads' = [threads EXCEPT ![t] = IdleThread]
            /\ UNCHANGED cache
    /\ UNCHANGED <<max_size, lastop, cacheOthers>>

\* key = self._make_key(prompt, model); self._cache[key] = response
SetStore(t) ==
    /\ threads[t].pc = "store"
    /\ LET key == make_key(threads[t].prompt, threads[t].model) IN
       /\ cache' = cache_put(cache, key, Response(threads[t].prompt, threads[t].model))
       \* history: the keys the dict held before this call removed one, and
       \* the keys the call leaves
       /\ lastop' = [op |-> "set", key |-> key, evicts |-> threads[t].evicts,
                     before |-> IF threads[t].evicts
                                THEN InsertAt(Keys(cache), threads[t].at,
                                              threads[t].first_key)
                                ELSE Keys(cache),
                     after |-> Keys(cache')]
    /\ threads' = [threads EXCEPT ![t] = IdleThread]
    /\ UNCHANGED <<max_size, errors, cacheOthers>>

NextCache ==
    \E t \in DOMAIN threads :
        \/ Get(t)
        \/ Clear(t)
        \/ SetTest(t)
        \/ SetPick(t)
        \/ SetDel(t)
        \/ SetStore(t)

SpecCacheSeq == InitCacheSeq /\ [][NextCache]_vars

\* LLMCache(max_size) shared by threads.
InitCache ==
    /\ max_size \in 0..MaxSize
    /\ cache = <<>>
    /\ threads = [t \in 1..MaxThreads |-> IdleThread]
    /\ errors = {}
    /\ lastop = NoOp
    /\ data = <<>>
    /\ use_smart_metrics = FALSE
    /\ show_progress = FALSE
    /\ path = "sync"
    /\ failing = {}
    /\ tasks = <<>>
    /\ arrived = <<>>
    /\ batch = "idle"
    /\ result = EmptyResult
    /\ failedCalls = <<>>
    /\ loaded = FALSE
    /\ metric_plugins = <<>>
    /\ src = NoSource
    /\ verdict = NoVerdict
    /\ vstate = "idle"
    /\ plugin_dir = <<>>
    /\ todo = <<>>
    /\ plugins = <<>>
    /\ llm_plugins = <<>>
    /\ sys_modules = <<>>
    /\ executed = {}
    /\ accepted = {}
    /\ log = {}
    /\ discovered = <<>>
    /\ SandboxIdle
    /\ LoaderIdle
    /\ ReentryIdle

SpecCache == InitCache /\ [][NextCache]_vars

-----------------------------------------------------------------------------
(* Properties of the cache *)

\* A set that found the cache at capacity has returned (with max_size 0 no
\* set returns: next(iter(...)) raises StopIteration on the empty dict).
SetAtCapacity == lastop.op = "set" /\ lastop.evicts

C24_ThreadSafe ==
    /\ errors = {}
    /\ Len(cache) <= max_size
    /\ (lastop.op = "get" /\ lastop.found) =>
          lastop.value = Response(lastop.prompt, lastop.model)

-----------------------------------------------------------------------------
(* RestrictedPluginExecutor.execute *)

\* RestrictedPluginExecutor(timeout=5, max_memory_mb=128)
max_memory_mb == 128

\* The memory, in MB, a worker may come to use while it runs the method.
PeakMemoryMB == {64, 256}

\* The values a plugin method may return (scores in tenths).
MethodResults == {7}

\* What the plugin code handed to execute does:
\*   compile  what compile_restricted makes of the text
\*   module   what running the module code leaves in the namespace
\*   ctor     what the constructor of the plugin class does
\*   method   what the requested method does in the worker; "exits" is a
\*            worker that dies before it puts anything on the queue
\*   sigterm  whether SIGTERM ends the worker, or the worker runs with a
\*            handler for it (a forked worker inherits the caller's handlers)
\*   peak_mb  the most memory the worker uses
\*   size     whether the pickled value the method returns fits the buffer
\*            of the pipe under the queue
Requests ==
    [compile : {"ok", "errors", "SyntaxError"},
     module : {"class", "noclass", "raises"},
     ctor : {"ok", "raises"},
     method : {"returns", "raises", "missing", "hangs", "exits"},
     sigterm : {"dies", "survives"},
     peak_mb : PeakMemoryMB,
     size : {"small", "large"}]

\* The except clause of execute: the error is logged and raised again.
Raise(exc) ==
    /\ outcome' = [kind |-> "raised", value |-> exc]
    /\ call' = "done"

\* The queue's feeder thread in the worker writes the pickled value to the
\* pipe; a value larger than the pipe's buffer is not written out until the
\* caller reads, and a process does not end before its feeder thread has.
PipeFull == request.method = "returns" /\ request.size = "large" /\ result_queue # <<>>

\* The worker has a step left to take.
WorkerCanStep ==
    \/ process = "started"
    \/ process = "running" /\ request.method # "hangs"
    \/ process = "finishing" /\ ~PipeFull

\* process.is_alive()
is_alive(p) == p \in {"started", "running", "finishing"}

InitSandbox ==
    /\ request \in Requests
    /\ call = "idle"
    /\ process = "none"
    /\ result_queue = <<>>
    /\ outcome = NoOutcome
    /\ ran = {}
    /\ delivered = FALSE
    /\ joined = NoJoin
    /\ data = <<>>
    /\ use_smart_metrics = FALSE
    /\ show_progress = FALSE
    /\ path = "sync"
    /\ failing = {}
    /\ tasks = <<>>
    /\ arrived = <<>>
    /\ batch = "idle"
    /\ result = EmptyResult
    /\ failedCalls = <<>>
    /\ loaded = FALSE
    /\ metric_plugins = <<>>
    /\ src = NoSource
    /\ verdict = NoVerdict
    /\ vstate = "idle"
    /\ plugin_dir = <<>>
    /\ todo = <<>>
    /\ plugins = <<>>
    /\ llm_plugins = <<>>
    /\ sys_modules = <<>>
    /\ executed = {}
    /\ accepted = {}
    /\ log = {}
    /\ discovered = <<>>
    /\ LoaderIdle
    /\ ReentryIdle
    /\ CacheIdle

otherVars == <<analyzerVars, loaderVars, validatorVars, discoveryVars, callVars, reentryVars, cacheVars>>

\* compile_restricted and the test of byte_code.errors.
Compile ==
    /\ call = "idle"
    /\ CASE request.compile = "SyntaxError" -> Raise("SyntaxError")
         [] request.compile = "errors" -> Raise("ValueError")
         [] OTHER -> call' = "compiled" /\ UNCHANGED outcome
    /\ UNCHANGED <<request, joined, process, result_queue, ran, delivered, otherVars>>

\* exec of the module code in the restricted globals, and the search of the
\* namespace for a class with an evaluate attribute.
ExecModule ==
    /\ call = "compiled"
    /\ ran' = ran \cup {<<"module", "caller">>}
    /\ CASE request.module = "raises" -> Raise("Exception")
         [] request.module = "noclass" -> Raise("ValueError")
         [] OTHER -> call' = "located" /\ UNCHANGED outcome
    /\ UNCHANGED <<request, joined, process, result_queue, delivered, otherVars>>

\* plugin_instance = plugin_class()
Instantiate ==
    /\ call = "located"
    /\ ran' = ran \cup {<<"instantiate", "caller">>}
    /\ IF request.ctor = "raises" THEN Raise("Exception")
       ELSE call' = "instantiated" /\ UNCHANGED outcome
    /\ UNCHANGED <<request, joined, process, result_queue, delivered, otherVars>>

\* The queue and the process are created, the process is started and the
\* caller enters process.join(timeout=self.timeout).
StartProcess ==
    /\ call = "instantiated"
    /\ process' = "started"
    /\ call' = "joining"
    /\ UNCHANGED <<request, joined, result_queue, outcome, ran, delivered, otherVars>>

\* _execute_with_timeout: getattr fails, or the method is entered.
WorkerCalls ==
    /\ process = "started"
    /\ IF request.method = "missing"
       THEN /\ result_queue' = Append(result_queue, None)
            /\ process' = "finishing"
            /\ UNCHANGED ran
       ELSE /\ ran' = ran \cup {<<"invoke", "worker">>}
            /\ process' = "running"
            /\ UNCHANGED result_queue
    /\ UNCHANGED <<request, joined, call, outcome, delivered, otherVars>>

\* _execute_with_timeout: the method returns and its result is put, or it
\* raises and None is put, or the worker dies in the method.
WorkerReturns ==
    /\ process = "running"
    /\ request.method # "hangs"
    /\ CASE request.method = "returns" ->
              \E v \in MethodResults :
                  /\ result_queue' = Append(result_queue, v)
                  /\ delivered' = TRUE
                  /\ process' = "finishing"
         [] request.method = "raises" ->
              /\ result_queue' = Append(result_queue, None)
              /\ process' = "finishing"
              /\ UNCHANGED delivered
         [] OTHER ->
              /\ process' = "exited"
              /\ UNCHANGED <<result_queue, delivered>>
    /\ UNCHANGED <<request, joined, call, outcome, ran, otherVars>>

\* The worker leaves _execute_with_timeout and its process ends.
WorkerExits ==
    /\ process = "finishing"
    /\ ~PipeFull
    /\ process' = "exited"
    /\ UNCHANGED <<request, joined, call, result_queue, outcome, ran, delivered, otherVars>>

\* process.join(timeout) returns: the worker has ended, or the timeout has.
JoinReturns ==
    /\ call = "joining"
    /\ call' = "joined"
    /\ joined' = [delivered |-> delivered, rested |-> ~WorkerCanStep]
    /\ UNCHANGED <<request, process, result_queue, outcome, ran, delivered, otherVars>>

\* if process.is_alive(): process.terminate(), which sends SIGTERM.
CheckAlive ==
    /\ call = "joined"
    /\ IF is_alive(process)
       THEN /\ call' = "terminating"
            /\ process' = IF request.sigterm = "dies" THEN "terminated" ELSE process
       ELSE /\ call' = "reading"
            /\ UNCHANGED process
    /\ UNCHANGED <<request, joined, result_queue, outcome, ran, delivered, otherVars>>

\* process.join() after terminate returns once the worker has ended, and
\* PluginExecutionTimeout is raised.
JoinTerminated ==
    /\ call = "terminating"
    /\ ~is_alive(process)
    /\ Raise("PluginExecutionTimeout")
    /\ UNCHANGED <<request, joined, process, result_queue, ran, delivered, otherVars>>

\* The queue is read: its item is returned, or RuntimeError is raised.
ReadResult ==
    /\ call = "reading"
    /\ IF result_queue # <<>>
       THEN /\ outcome' = [kind |-> "returned", value |-> Head(result_queue)]
            /\ result_queue' = Tail(result_queue)
            /\ call' = "done"
       ELSE /\ Raise("RuntimeError")
            /\ UNCHANGED result_queue
    /\ UNCHANGED <<request, joined, process, ran, delivered, otherVars>>

NextSandbox ==
    \/ Compile
    \/ ExecModule
    \/ Instantiate
    \/ StartProcess
    \/ WorkerCalls
    \/ WorkerReturns
    \/ WorkerExits
    \/ JoinReturns
    \/ CheckAlive
    \/ JoinTerminated
    \/ ReadResult

SpecSandbox == InitSandbox /\ [][NextSandbox]_vars

\* The caller and the worker are scheduled: a step that stays possible is taken.
SpecSandboxFair == SpecSandbox /\ WF_vars(NextSandbox)

-----------------------------------------------------------------------------
(* Properties of the sandbox *)

\* C11: when the plugin method does not return, execute ends with the
\* timeout outcome (PluginExecutionTimeout), the worker is no longer alive
\* when it ends, and the caller does get there whatever the worker does.
C11_TimeoutAndResume ==
    (call = "joining" /\ request.method = "hangs")
        ~> (/\ call = "done"
            /\ outcome = [kind |-> "raised", value |-> "PluginExecutionTimeout"]
            /\ ~is_alive(process))

\* C12: execute never raises into its caller: every call ends by returning.
C12_NeverRaises == call = "done" => outcome.kind = "returned"

\* C13: when the worker has ended without putting a result of the plugin
\* method, execute ends with a failure and not with a returned value.
C13_NoResultIsFailure ==
    (call = "done" /\ process = "exited" /\ ~delivered) => outcome.kind = "raised"

\* C14: the plugin class is instantiated and the requested method is invoked
\* in the worker process, never in the calling process.
C14_WorkerOnly ==
    \A e \in ran : e[1] \in {"instantiate", "invoke"} => e[2] = "worker"

\* C15: a call whose worker used more memory than max_memory_mb ends with a
\* failure.
C15_MemoryCeiling ==
    (call = "done" /\ <<"invoke", "worker">> \in ran /\ request.peak_mb > max_memory_mb)
        => outcome.kind = "raised"

\* C29: when the method has returned its value and the worker has come to
\* rest before join(timeout) returns, execute returns that value, whatever
\* its size; it raises neither the timeout nor the missing-result error.
C29_ValueReturned ==
    (call = "done" /\ joined.delivered /\ joined.rested) =>
        /\ outcome.kind = "returned"
        /\ outcome.value \in MethodResults

====
